---- MODULE Spec2Model ----
(***************************************************************************)
(* Correlated message delivery engine of edcpy                             *)
(* (edcpy/message_handler.py, edcpy/messaging.py, edcpy/backend.py).       *)
(*                                                                         *)
(* One MessageHandler with its pending store, the broker deliveries fed to *)
(* handle_message, and the scoped delivery sessions (process_message) that *)
(* run concurrently on the asyncio event loop.                             *)
(*                                                                         *)
(* Time is counted in ticks of half a poll interval: asyncio.sleep(0.1) is *)
(* PollInterval = 2 ticks, and timeout_seconds is given in ticks, so that  *)
(* timeouts that are no multiple of the poll interval are covered.  Each   *)
(* wait reads the loop clock relative to its own call (start_time is its   *)
(* origin), which is all wait_for_message uses of it.  Code between two    *)
(* suspension points takes no time: the clock advances only when no        *)
(* coroutine is runnable, and a sleeping coroutine is resumed at the tick  *)
(* its timer expires.  No section under the asyncio.Lock holds an await,   *)
(* and acquiring the free lock does not suspend, so each locked section is *)
(* part of the step of the coroutine that enters it.                       *)
(***************************************************************************)
EXTENDS Integers, Sequences, FiniteSets, TLC

\* ------------------------------------------------------------ bounds
\* Broker deliveries handed to handle_message in one run.
MaxDeliveries == 2
\* Largest timeout_seconds a caller passes, in ticks.
MaxTimeout == 1

\* asyncio.sleep(0.1) between two scans, in ticks.
PollInterval == 2

\* ------------------------------------------------------------ values
\* The coroutines that run sessions concurrently on one handler; a new session
\* takes the first one that is not running.
SessionOrder == <<"s1", "s2">>
Sessions == {SessionOrder[i] : i \in 1..Len(SessionOrder)}

Deliveries == 1..MaxDeliveries

\* Python None for an id, a held envelope, a raised error.
NoId == "None"
NoDelivery == 0
NoError == "None"

Ids == {"tx-1", "tx-2"}

\* asyncio.TimeoutError, raised by wait_for_message and possibly by a caller.
TimeoutError == "asyncio.TimeoutError"
\* Exceptions a caller's block can raise.
ProcessingErrors == {"ValueError", TimeoutError}
\* BaseException thrown into the block (task cancelled, generator closed).
CancelledError == "asyncio.CancelledError"


\* ------------------------------------------------------------ messages
HttpPullMessage == "HttpPullMessage"
HttpPushMessage == "HttpPushMessage"
MessageClasses == {HttpPullMessage, HttpPushMessage}

PullFields ==
  {"auth_code_decoded", "auth_code", "auth_key", "endpoint", "id",
   "properties", "contract_id"}
PushFields == {"body"}

\* The fields a class declares; all of them are required (none has a default).
ClassFields(cls) == IF cls = HttpPullMessage THEN PullFields ELSE PushFields

\* What hasattr() finds on a parsed message: declared fields and properties.
ClassAttrs(cls) ==
  IF cls = HttpPullMessage
    THEN PullFields \cup
         {"http_method", "request_args", "transfer_process_id", "provider_host"}
    ELSE PushFields

\* A raw payload: whether it is a dict, the keys it holds, and the value under
\* "id" (a string of Ids, or null).
Null == "null"
Payloads ==
  { [isDict |-> TRUE, keys |-> PullFields, id |-> "tx-1"],
    [isDict |-> TRUE, keys |-> PullFields, id |-> "tx-2"],
    [isDict |-> TRUE, keys |-> PullFields, id |-> Null],
    [isDict |-> TRUE, keys |-> PullFields \ {"contract_id"}, id |-> "tx-1"],
    [isDict |-> TRUE, keys |-> {"body"}, id |-> Null],
    [isDict |-> TRUE, keys |-> {"body", "id"}, id |-> "tx-1"],
    [isDict |-> FALSE, keys |-> {}, id |-> Null] }

NoMessage == [cls |-> "None", id |-> NoId]

\* message_class(**payload): fails on a non-dict, on a missing required field
\* and on an id that is no string; keys the class does not declare are ignored.
ParseOk(cls, p) ==
  /\ p.isDict
  /\ ClassFields(cls) \subseteq p.keys
  /\ ("id" \in ClassFields(cls) => p.id \in Ids)

ParsedMessage(cls, p) ==
  [cls |-> cls, id |-> IF "id" \in ClassFields(cls) THEN p.id ELSE NoId]

\* MessageHandler._extract_message_id
ExtractMessageId(message) ==
  IF "id" \in ClassAttrs(message.cls) THEN message.id
  ELSE IF "transfer_process_id" \in ClassAttrs(message.cls) THEN message.id
  ELSE NoId

VARIABLES
  auto_acknowledge,   \* MessageHandler.auto_acknowledge
  message_class,      \* MessageHandler.message_class
  messages,           \* MessageHandler.messages: the envelopes, as deliveries
  bm_message,         \* BrokerMessage.message of the envelope of a delivery
  consumed,           \* BrokerMessage.consumed of the envelope of a delivery
  delivered,          \* broker deliveries handed to handle_message so far
  acks,               \* RabbitMessage.ack() calls per delivery
  nacks,              \* RabbitMessage.nack() calls per delivery
  pc,                 \* position of each session's coroutine
  timeout_seconds,    \* argument of process_message
  expected_id,        \* argument of process_message
  elapsed,            \* wait_for_message: current_time - start_time
  wake_at,            \* expiry of the pending asyncio.sleep, on the same clock
  broker_message,     \* process_message: the envelope wait_for_message returned
  caught,             \* process_message: the exception of the caller's block
  raised,             \* the error the session raises to its caller
  sh,                 \* history of each session (see NoSessionHist)
  sequential,         \* every session so far was unfiltered and ran alone
  completed,          \* envelopes of the sessions that ran their exit, in
                      \* order, as long as `sequential` holds
  timeout_mark        \* 0, or 1 + the deliveries made when a wait last timed
                      \* out, as long as `sequential` holds
\* Locals are reset when they are dead: the wait's when it returns, the
\* block's when the block is left, the rest when the coroutine is over.

vars ==
  <<auto_acknowledge, message_class, messages, bm_message, consumed, delivered,
    acks, nacks, pc, timeout_seconds, expected_id, elapsed, wake_at,
    broker_message, caught, raised, sh, sequential, completed, timeout_mark>>

\* ------------------------------------------------------------ backend state
\* One call into the provisioning code of edcpy/messaging.py, made directly or
\* by a stream of edcpy/backend.py, with the broker it talks to.
VARIABLES
  entry,              \* the operation that is called (see Entries)
  exchange_name,      \* the exchange_name argument of the call
  exchange,           \* the name of the RabbitExchange the base app made
  rabbit_url,         \* AppConfig.rabbit_url is set
  api_key,            \* os.environ["API_AUTH_KEY"] is set
  credentials,        \* the bearer credential of the stream request
  stream_timeout,     \* the ticks the timeout of the stream lasts
  query_timeout,      \* the timeout query parameter of the request, seconds
  timeout_arg,        \* timeout the endpoint passes to the stream, seconds
  bpc,                \* position of the call
  broker_state,       \* RabbitBroker: "None", "created", "started", "closed"
  subscriber,         \* the handler is registered with broker.subscriber
  declared,           \* what was declared on the broker: exchange, queue
  close_calls,        \* broker.close() calls
  messaging_app,      \* with_consumer_messaging_app: messaging_app is not None
  clock,              \* robust_stream_wrapper: loop time - start_time
  deadline,           \* asyncio.wait_for: when its timer expires, same clock
  wait_start,         \* wait_for_message: start_time, same clock
  wake,               \* wait_for_message: expiry of the sleep, since wait_start
  stored,             \* the stream's handler holds a pending matching envelope
  held,               \* the stream's session holds its envelope (at the yield)
  stream_acks,        \* ack calls on the stream's delivery
  stream_nacks,       \* nack calls on the stream's delivery
  disconnected,       \* request.is_disconnected()
  error,              \* the exception in flight in the consumer context
  chunk,              \* the chunk _stream_*_messages yielded, not yet sent
  frames,             \* the chunks sent to the client
  observed,           \* what the caller of the entry gets (error or status)
  failure,            \* the provisioning step that failed, if any (history)
  disc_waiting,       \* the peer left while the stream was waiting (history)
  outer_fired         \* the timer of asyncio.wait_for expired (history)

backendVars ==
  <<entry, exchange_name, exchange, rabbit_url, api_key, credentials, stream_timeout, query_timeout,
    timeout_arg, bpc, broker_state,
    subscriber, declared, close_calls, messaging_app, clock, deadline,
    wait_start, wake, stored, held, stream_acks, stream_nacks, disconnected,
    error, chunk, frames, observed, failure, disc_waiting, outer_fired>>

NoChunk == [type |-> "None"]

\* No call into the provisioning code is made.
BackendIdle ==
  /\ entry = "None"
  /\ exchange_name = "None"
  /\ exchange = "None"
  /\ rabbit_url = FALSE
  /\ api_key = FALSE
  /\ credentials = "None"
  /\ stream_timeout = 0
  /\ query_timeout = 0
  /\ timeout_arg = 0
  /\ bpc = "None"
  /\ broker_state = "None"
  /\ subscriber = FALSE
  /\ declared = {}
  /\ close_calls = 0
  /\ messaging_app = FALSE
  /\ clock = 0
  /\ deadline = 0
  /\ wait_start = 0
  /\ wake = 0
  /\ stored = FALSE
  /\ held = FALSE
  /\ stream_acks = 0
  /\ stream_nacks = 0
  /\ disconnected = FALSE
  /\ error = NoError
  /\ chunk = NoChunk
  /\ frames = <<>>
  /\ observed = NoError
  /\ failure = "None"
  /\ disc_waiting = FALSE
  /\ outer_fired = FALSE

\* ------------------------------------------------------------ routing state
\* One use of ConsumerQueueFactory (edcpy/messaging.py) next to the publish
\* endpoints of edcpy/backend.py.  A Python str is the sequence of its
\* characters; None is the one-element sequence <<"None">>.
VARIABLES
  queue_type,          \* create_queue_config: queue_type ("pull", "push")
  cfg_provider_host,       \* create_queue_config: provider_host
  cfg_transfer_process_id, \* create_queue_config: transfer_process_id
  cfg_routing_path,        \* create_queue_config: routing_path
  routing_key,         \* ConsumerQueueConfig.routing_key, the binding pattern
  other_scope,         \* the scope (host or path) of a second configuration
  other_key,           \* ConsumerQueueConfig.routing_key of the second one
  publish_id,          \* EndpointDataReference.id of a POST /pull
  published_key        \* routing_key of broker.publish in the endpoint

routingVars ==
  <<queue_type, cfg_provider_host, cfg_transfer_process_id, cfg_routing_path, routing_key,
    other_scope, other_key, publish_id, published_key>>

None == <<"None">>

\* The factory and the publish endpoints are not used.
RoutingIdle ==
  /\ queue_type = "None"
  /\ cfg_provider_host = None
  /\ cfg_transfer_process_id = None
  /\ cfg_routing_path = None
  /\ routing_key = None
  /\ other_scope = None
  /\ other_key = None
  /\ publish_id = None
  /\ published_key = None

\* ------------------------------------------------------------ facade state
\* The MessagingClient objects of one process and the consumer facades
\* (pull_consumer / push_consumer contexts) that are open.
VARIABLES
  clients,             \* MessagingClient.consumer_id of each client made
  facades,             \* ConsumerQueueConfig of each open facade
  uuids                \* uuid.uuid4() calls made so far

facadeVars == <<clients, facades, uuids>>

\* No client is made.
FacadeIdle ==
  /\ clients = <<>>
  /\ facades = <<>>
  /\ uuids = 0

\* ------------------------------------------------------------ queue state
\* The queue of the consumer on the broker, for the deliveries of one handler.
VARIABLES
  ready,               \* messages in the queue that wait for their delivery
  first_delivery       \* for each delivery, the first delivery of its message

redeliveryVars == <<ready, first_delivery>>

\* The queue is not looked at.
RedeliveryIdle ==
  /\ ready = <<>>
  /\ first_delivery = <<>>

\* ------------------------------------------------------------ consumer state
\* One MessageConsumer (edcpy/message_handler.py) over the handler, and the
\* calls made through it; each call runs one session of the handler.
VARIABLES
  default_timeout,     \* MessageConsumer.default_timeout
  via,                 \* the method of the consumer a session was started by
  in_time              \* history: the first delivery that matched the wait of
                       \* the session and was ingested before its deadline

consumerVars == <<default_timeout, via, in_time>>

\* timeout: Optional[int] = None
NoTimeout == <<>>

\* No call is made through a MessageConsumer.
ConsumerIdle ==
  /\ default_timeout = 0
  /\ via = [s \in Sessions |-> "None"]
  /\ in_time = [s \in Sessions |-> NoDelivery]

\* The state outside the handler and the provisioning call.
otherVars == <<routingVars, facadeVars, redeliveryVars, consumerVars>>
OtherIdle == RoutingIdle /\ FacadeIdle /\ RedeliveryIdle /\ ConsumerIdle

\* History of one session: the ack/nack calls it issued, the delivery they
\* were made on, and where its error came from.
NoSessionHist == [acks |-> 0, nacks |-> 0, on |-> NoDelivery, origin |-> "None"]

\* ------------------------------------------------------------ helpers
Range(seq) == {seq[i] : i \in 1..Len(seq)}

\* wait_for_message: current_time - start_time >= timeout_seconds
TimedOut(since_start, timeout) == since_start >= timeout

\* Variant: a scan that takes any pending envelope, whatever its id.
MatchesAnyId(d, expected) == ~consumed[d]

\* wait_for_message: the test one envelope passes inside the scan
Matches(d, expected) ==
  /\ ~consumed[d]
  /\ \/ expected = NoId
     \/ /\ ExtractMessageId(bm_message[d]) # NoId
        /\ ExtractMessageId(bm_message[d]) = expected

\* wait_for_message: the for loop over self.messages, first match returned
RECURSIVE FirstMatch(_, _)
FirstMatch(seq, expected) ==
  IF seq = <<>> THEN NoDelivery
  ELSE IF Matches(Head(seq), expected) THEN Head(seq)
  ELSE FirstMatch(Tail(seq), expected)

\* Variant: a store that puts the newest envelope first.
StoreFirst(seq, d) == <<d>> \o seq

\* handle_message: self.messages.append(broker_message)
Store(seq, d) == Append(seq, d)

\* Variant: a mark_consumed that leaves the store as it is.
PruneNothing(seq, cons) == seq

\* Variant: a mark_consumed that empties the store.
PruneAll(seq, cons) == <<>>

\* mark_consumed: [msg for msg in self.messages if not msg.consumed]
Prune(seq, cons) == SelectSeq(seq, LAMBDA d : ~cons[d])

\* Variants: an exit that forgets the broker call.
AckSkipped(d) == acks
NackSkipped(d) == nacks

\* Variant: a nack that is made whatever the acknowledgement mode.
NackAlways(d) == [nacks EXCEPT ![d] = @ + 1]

\* _safe_ack / _safe_nack: the call is made unless auto_acknowledge is set; an
\* error of the call itself is logged and swallowed.
SafeAck(d) == IF auto_acknowledge THEN acks ELSE [acks EXCEPT ![d] = @ + 1]
SafeNack(d) == IF auto_acknowledge THEN nacks ELSE [nacks EXCEPT ![d] = @ + 1]

Active(s) == pc[s] # "idle"

\* No session is handing its result to its caller: the event loop is free to
\* run any coroutine.
Quiet == \A s \in Sessions : pc[s] # "done"

\* ------------------------------------------------------------ initial state
Init ==
  /\ auto_acknowledge \in BOOLEAN
  /\ message_class \in MessageClasses
  /\ messages = <<>>
  /\ bm_message = [d \in Deliveries |-> NoMessage]
  /\ consumed = [d \in Deliveries |-> FALSE]
  /\ delivered = 0
  /\ acks = [d \in Deliveries |-> 0]
  /\ nacks = [d \in Deliveries |-> 0]
  /\ pc = [s \in Sessions |-> "idle"]
  /\ timeout_seconds = [s \in Sessions |-> 0]
  /\ expected_id = [s \in Sessions |-> NoId]
  /\ elapsed = [s \in Sessions |-> 0]
  /\ wake_at = [s \in Sessions |-> 0]
  /\ broker_message = [s \in Sessions |-> NoDelivery]
  /\ caught = [s \in Sessions |-> NoError]
  /\ raised = [s \in Sessions |-> NoError]
  /\ sh = [s \in Sessions |-> NoSessionHist]
  /\ sequential = TRUE
  /\ completed = <<>>
  /\ timeout_mark = 0

configVars == <<auto_acknowledge, message_class>>
storeVars == <<messages, bm_message, consumed>>
brokerVars == <<acks, nacks>>
argVars == <<timeout_seconds, expected_id>>
historyVars == <<sequential, completed, timeout_mark>>
sessionVars ==
  <<pc, timeout_seconds, expected_id, elapsed, wake_at, broker_message, caught,
    raised, sh>>

\* ------------------------------------------------------------ handle_message
\* handle_message, one broker delivery: the payload is parsed and the new
\* envelope stored under the lock; a payload that does not parse is nacked
\* and dropped.
HandleMessage(p) ==
  /\ Quiet
  /\ delivered < MaxDeliveries
  /\ delivered' = delivered + 1
  /\ IF ParseOk(message_class, p)
       THEN /\ bm_message' =
                 [bm_message EXCEPT ![delivered + 1] = ParsedMessage(message_class, p)]
            /\ messages' = Store(messages, delivered + 1)
            /\ UNCHANGED nacks
       ELSE /\ nacks' = SafeNack(delivered + 1)
            /\ UNCHANGED <<messages, bm_message>>
  /\ UNCHANGED <<configVars, consumed, acks, sessionVars, historyVars>>

\* ------------------------------------------------------------ sessions
\* The earliest-arrived pending envelope a wait for `expected` is satisfied by
\* (deliveries are numbered in arrival order).
EarliestPending(expected) ==
  LET fit == {d \in Range(messages) :
                /\ ~consumed[d]
                /\ (expected # NoId => bm_message[d].id = expected)}
  IN IF fit = {} THEN NoDelivery ELSE CHOOSE d \in fit : \A e \in fit : d <= e

\* Variant: a timeout that also empties the pending store.
RaiseTimeoutDropsStore(s) ==
  /\ pc' = [pc EXCEPT ![s] = "done"]
  /\ raised' = [raised EXCEPT ![s] = TimeoutError]
  /\ sh' = [sh EXCEPT ![s].origin = "wait"]
  /\ messages' = <<>>
  /\ UNCHANGED <<bm_message, consumed, brokerVars, broker_message, wake_at>>

\* wait_for_message: raise asyncio.TimeoutError("Timeout waiting for message").
\* Nothing but the waiting call ends.
RaiseTimeout(s) ==
  /\ pc' = [pc EXCEPT ![s] = "done"]
  /\ raised' = [raised EXCEPT ![s] = TimeoutError]
  /\ sh' = [sh EXCEPT ![s].origin = "wait"]
  /\ UNCHANGED <<storeVars, brokerVars, broker_message, wake_at>>

\* Variant: a sleep of two poll intervals.
SleepTwice(t) == t + 2 * PollInterval

\* await asyncio.sleep(0.1): when the sleep expires
SleepExpiry(t) == t + PollInterval

\* wait_for_message: one pass of the while loop.  The deadline is tested
\* before the store is scanned; the scan is made under the lock; a match is
\* returned to process_message, which yields it to the caller's block;
\* without a match the coroutine sleeps one poll interval.
LoopPass(s, since_start, timeout, expected) ==
  IF TimedOut(since_start, timeout)
    THEN RaiseTimeout(s)
    ELSE LET d == FirstMatch(messages, expected) IN
           /\ broker_message' = [broker_message EXCEPT ![s] = d]
           /\ pc' = [pc EXCEPT ![s] = IF d # NoDelivery THEN "block" ELSE "sleep"]
           /\ wake_at' = [wake_at EXCEPT ![s] =
                            IF d # NoDelivery THEN 0 ELSE SleepExpiry(since_start)]
           /\ UNCHANGED <<raised, sh, storeVars, brokerVars>>

\* The coroutine a new session runs in.
FreeSession(s) ==
  \E i \in 1..Len(SessionOrder) :
    /\ s = SessionOrder[i]
    /\ pc[s] = "idle"
    /\ \A j \in 1..(i - 1) : pc[SessionOrder[j]] # "idle"

\* process_message is entered: wait_for_message reads start_time and runs the
\* first pass of its loop.
StartSession(s, timeout, expected) ==
  /\ Quiet
  /\ FreeSession(s)
  /\ LoopPass(s, 0, timeout, expected)
  /\ timeout_seconds' =
       [timeout_seconds EXCEPT ![s] = IF pc'[s] = "block" THEN 0 ELSE timeout]
  /\ expected_id' = [expected_id EXCEPT ![s] = expected]
  /\ LET alone == sequential /\ expected = NoId /\ \A t \in Sessions : ~Active(t) IN
       /\ sequential' = alone
       /\ completed' = IF alone THEN completed ELSE <<>>
       /\ timeout_mark' = IF ~alone THEN 0
                          ELSE IF pc'[s] = "done" THEN delivered + 1
                          ELSE timeout_mark
  /\ UNCHANGED <<configVars, delivered, elapsed, caught>>

\* The sleep is over: the next pass of the loop.
Wake(s) ==
  /\ Quiet
  /\ pc[s] = "sleep"
  /\ elapsed[s] >= wake_at[s]
  /\ LoopPass(s, elapsed[s], timeout_seconds[s], expected_id[s])
  /\ timeout_seconds' =
       [timeout_seconds EXCEPT ![s] = IF pc'[s] = "block" THEN 0 ELSE @]
  /\ elapsed' = [elapsed EXCEPT ![s] = IF pc'[s] = "block" THEN 0 ELSE @]
  /\ timeout_mark' = IF sequential /\ pc'[s] = "done" THEN delivered + 1
                     ELSE timeout_mark
  /\ UNCHANGED <<configVars, delivered, expected_id, caught, sequential, completed>>

\* _stream_pull_messages: the frame the block of a pull stream for
\* transfer_process_id builds from the message it was handed; the frame's
\* fields other than the id are those of the envelope of `delivery`.
SSEPullMessage(transfer_process_id, d) ==
  [type |-> "pull_message",
   transfer_process_id |-> transfer_process_id,
   delivery |-> d]

\* process_message after the yield: the caller's block returned; _safe_ack.
BlockReturn(s) ==
  /\ Quiet
  /\ pc[s] = "block"
  /\ acks' = SafeAck(broker_message[s])
  /\ sh' = [sh EXCEPT ![s].acks = @ + (acks'[broker_message[s]] - acks[broker_message[s]]),
                       ![s].on = broker_message[s]]
  /\ pc' = [pc EXCEPT ![s] = "exit"]
  /\ expected_id' = [expected_id EXCEPT ![s] = NoId]
  /\ UNCHANGED <<configVars, storeVars, delivered, nacks, timeout_seconds,
                 elapsed, wake_at, broker_message, caught, raised, historyVars>>

\* process_message, except Exception: the caller's block raised; _safe_nack.
BlockRaise(s, e) ==
  /\ Quiet
  /\ pc[s] = "block"
  /\ nacks' = SafeNack(broker_message[s])
  /\ sh' = [sh EXCEPT ![s].nacks = @ + (nacks'[broker_message[s]] - nacks[broker_message[s]]),
                       ![s].on = broker_message[s],
                       ![s].origin = "block"]
  /\ caught' = [caught EXCEPT ![s] = e]
  /\ pc' = [pc EXCEPT ![s] = "exit"]
  /\ expected_id' = [expected_id EXCEPT ![s] = NoId]
  /\ UNCHANGED <<configVars, storeVars, delivered, acks, timeout_seconds,
                 elapsed, wake_at, broker_message, raised, historyVars>>

\* A BaseException is thrown into the block (the task is cancelled or the
\* generator is closed): `except Exception` does not catch it.
BlockCancel(s) ==
  /\ Quiet
  /\ pc[s] = "block"
  /\ raised' = [raised EXCEPT ![s] = CancelledError]
  /\ sh' = [sh EXCEPT ![s].origin = "cancel"]
  /\ pc' = [pc EXCEPT ![s] = "done"]
  /\ UNCHANGED <<configVars, storeVars, delivered, brokerVars, argVars, elapsed,
                 wake_at, broker_message, caught, historyVars>>

\* An envelope that is out of the store and that no session in `holders`
\* refers to is garbage: its message is gone with it.
Collect(msgs, cons, holders) ==
  [d \in Deliveries |->
     IF cons[d] /\ \A t \in holders : broker_message[t] # d
       THEN NoMessage ELSE msgs[d]]

\* Variant: an exit that raises an error of its own instead.
RaiseOther(e) == "RuntimeError"

\* process_message: the bare `raise` after mark_consumed re-raises the
\* exception the except clause caught.
Reraise(e) == e

\* The ack/nack call has returned: mark_consumed under the lock, then the
\* session ends, normally or with the block's error re-raised.
MarkConsumed(s) ==
  /\ Quiet
  /\ pc[s] = "exit"
  /\ consumed' = [consumed EXCEPT ![broker_message[s]] = TRUE]
  /\ messages' = Prune(messages, consumed')
  /\ pc' = [pc EXCEPT ![s] = "done"]
  /\ raised' = [raised EXCEPT ![s] =
                  IF caught[s] # NoError THEN Reraise(caught[s]) ELSE NoError]
  /\ completed' = IF sequential THEN Append(completed, broker_message[s])
                  ELSE completed
  /\ bm_message' = Collect(bm_message, consumed', {t \in Sessions \ {s} : Active(t)})
  /\ UNCHANGED <<configVars, delivered, brokerVars, argVars, elapsed,
                 wake_at, broker_message, caught, sh, sequential, timeout_mark>>

\* The caller has the session's result (the return or the raised error); the
\* coroutine is over.
Close(s) ==
  /\ pc[s] = "done"
  /\ pc' = [pc EXCEPT ![s] = "idle"]
  /\ timeout_seconds' = [timeout_seconds EXCEPT ![s] = 0]
  /\ expected_id' = [expected_id EXCEPT ![s] = NoId]
  /\ elapsed' = [elapsed EXCEPT ![s] = 0]
  /\ wake_at' = [wake_at EXCEPT ![s] = 0]
  /\ broker_message' = [broker_message EXCEPT ![s] = NoDelivery]
  /\ caught' = [caught EXCEPT ![s] = NoError]
  /\ raised' = [raised EXCEPT ![s] = NoError]
  /\ sh' = [sh EXCEPT ![s] = NoSessionHist]
  /\ bm_message' = Collect(bm_message, consumed, {t \in Sessions \ {s} : Active(t)})
  /\ UNCHANGED <<configVars, messages, consumed, delivered, brokerVars,
                 historyVars>>

\* ------------------------------------------------------------ the clock
\* Time passes while no coroutine is runnable; it is read by the sleeping waits.
Tick ==
  /\ Quiet
  /\ \E s \in Sessions : pc[s] = "sleep"
  /\ \A s \in Sessions : pc[s] = "sleep" => elapsed[s] < wake_at[s]
  /\ elapsed' = [s \in Sessions |->
                   IF pc[s] = "sleep" THEN elapsed[s] + 1 ELSE elapsed[s]]
  /\ UNCHANGED <<configVars, storeVars, delivered, brokerVars, pc, argVars,
                 wake_at, broker_message, caught, raised, sh, historyVars>>

Next ==
  \/ \E p \in Payloads : HandleMessage(p) /\ UNCHANGED <<backendVars, otherVars>>
  \/ \E s \in Sessions, t \in 0..MaxTimeout, e \in Ids \cup {NoId} :
       StartSession(s, t, e) /\ UNCHANGED <<backendVars, otherVars>>
  \/ \E s \in Sessions : Wake(s) /\ UNCHANGED <<backendVars, otherVars>>
  \/ \E s \in Sessions : BlockReturn(s) /\ UNCHANGED <<backendVars, otherVars>>
  \/ \E s \in Sessions, e \in ProcessingErrors :
       BlockRaise(s, e) /\ UNCHANGED <<backendVars, otherVars>>
  \/ \E s \in Sessions : BlockCancel(s) /\ UNCHANGED <<backendVars, otherVars>>
  \/ \E s \in Sessions : MarkConsumed(s) /\ UNCHANGED <<backendVars, otherVars>>
  \/ \E s \in Sessions : Close(s) /\ UNCHANGED <<backendVars, otherVars>>
  \/ Tick /\ UNCHANGED <<backendVars, otherVars>>

\* The handler and its sessions; no provisioning call is modelled.
\* The handler alone: no provisioning call, no stream.
HandlerStart ==
  /\ Init
  /\ BackendIdle
  /\ OtherIdle

Spec == HandlerStart /\ [][Next]_<<vars, backendVars, otherVars>>


\* ------------------------------------------------------------ properties
\* A session at the point where its caller gets its result.
Exited(s) == pc[s] = "done"

\* The id a stored message carries (None for a class without ids).
IdOf(d) ==
  IF bm_message[d].cls = HttpPullMessage THEN bm_message[d].id ELSE NoId

\* C1: with manual acknowledgement, a session whose block returned normally
\* has, when it exits, made exactly one ack call and no nack call, on the
\* delivery it was handed, and that envelope is out of the pending store.
C1_AckOnNormalExit ==
  \A s \in Sessions :
    (Exited(s) /\ ~auto_acknowledge /\ sh[s].origin = "None") =>
      /\ sh[s].acks = 1
      /\ sh[s].nacks = 0
      /\ sh[s].on = broker_message[s]
      /\ acks[broker_message[s]] >= 1
      /\ consumed[broker_message[s]]
      /\ broker_message[s] \notin Range(messages)
      /\ raised[s] = NoError

C1_Witness ==
  \E s \in Sessions :
    /\ Exited(s) /\ ~auto_acknowledge /\ sh[s].origin = "None"
    /\ sh[s].acks = 1 /\ acks[broker_message[s]] = 1
    /\ broker_message[s] \notin Range(messages)

\* C2: with manual acknowledgement, a session whose block raised an error
\* has, when it exits, made exactly one nack call and no ack call, on the
\* delivery it was handed, the envelope is out of the pending store, and the
\* error it raises to its caller is the one the block raised.
C2_NackOnError ==
  \A s \in Sessions :
    (Exited(s) /\ ~auto_acknowledge /\ sh[s].origin = "block") =>
      /\ sh[s].nacks = 1
      /\ sh[s].acks = 0
      /\ sh[s].on = broker_message[s]
      /\ nacks[broker_message[s]] >= 1
      /\ consumed[broker_message[s]]
      /\ broker_message[s] \notin Range(messages)
      /\ caught[s] \in ProcessingErrors
      /\ raised[s] = caught[s]

C2_Witness ==
  \E s \in Sessions :
    /\ Exited(s) /\ ~auto_acknowledge /\ sh[s].origin = "block"
    /\ sh[s].nacks = 1 /\ nacks[broker_message[s]] = 1
    /\ raised[s] = "ValueError"
    /\ broker_message[s] \notin Range(messages)

\* C3: every envelope is handed to at most one session and gets at most one
\* terminal ack or nack call: no two running sessions hold the same delivery,
\* and no delivery has more than one ack/nack call in all.
C3_SingleTerminalCall ==
  /\ \A s, t \in Sessions :
       (s # t /\ pc[s] \in {"block", "exit"} /\ pc[t] \in {"block", "exit"}) =>
         broker_message[s] # broker_message[t]
  /\ \A d \in Deliveries : acks[d] + nacks[d] <= 1

\* The payload has every field its class declares, with an id of the declared
\* type.
WellFormed(cls, p) ==
  /\ p.isDict
  /\ \A f \in ClassFields(cls) : f \in p.keys
  /\ (cls = HttpPullMessage => p.id # Null)

\* C4: with manual acknowledgement, ingesting a payload that does not parse
\* makes one nack call on its delivery, no ack call, and leaves the pending
\* store as it was; ingesting a payload that parses appends one unconsumed
\* envelope to the pending store and makes no broker call.
C4_IngestOutcome ==
  [][\A p \in Payloads :
       (~auto_acknowledge /\ HandleMessage(p)) =>
         LET d == delivered + 1 IN
           IF WellFormed(message_class, p)
             THEN /\ messages' = Append(messages, d)
                  /\ ~consumed'[d]
                  /\ bm_message'[d].cls = message_class
                  /\ acks' = acks /\ nacks' = nacks
             ELSE /\ messages' = messages
                  /\ bm_message' = bm_message
                  /\ nacks' = [nacks EXCEPT ![d] = 1]
                  /\ acks' = acks]_vars

C4_Witness ==
  /\ ~auto_acknowledge
  /\ \E bad, good \in 1..delivered :
       /\ bad \notin Range(messages) /\ ~consumed[bad]
       /\ nacks[bad] = 1 /\ acks[bad] = 0
       /\ good \in Range(messages) /\ ~consumed[good]
       /\ nacks[good] = 0 /\ acks[good] = 0

\* C5: a wait that is called while an envelope satisfying its predicate is
\* pending returns the earliest-arrived such envelope, for every timeout.
C5_ReturnsEarliestPending ==
  [][\A s \in Sessions, t \in 0..MaxTimeout, e \in Ids \cup {NoId} :
       (StartSession(s, t, e) /\ EarliestPending(e) # NoDelivery) =>
         /\ pc'[s] = "block"
         /\ broker_message'[s] = EarliestPending(e)]_vars

\* The deliveries that parsed, and the k-th of them in arrival order.
Parsed(d) == d <= delivered /\ (bm_message[d] # NoMessage \/ consumed[d])
NthParsed(k) ==
  CHOOSE d \in Deliveries \cup {NoDelivery} :
    \/ /\ d # NoDelivery
       /\ Parsed(d)
       /\ Cardinality({c \in 1..d : Parsed(c)}) = k
    \/ /\ d = NoDelivery
       /\ Cardinality({c \in Deliveries : Parsed(c)}) < k

\* C6: when unfiltered sessions run one after the other, the k-th session
\* that completes was handed the k-th message that arrived: arrival order,
\* each message once.
C6_ArrivalOrder ==
  sequential =>
    \A k \in 1..Len(completed) : completed[k] = NthParsed(k)

C6_Witness ==
  /\ sequential
  /\ Len(completed) = 2
  /\ completed[1] = 1 /\ completed[2] = 2

\* C7: a session that waits for id X is handed only an envelope whose message
\* carries id X, so the frame a pull stream builds for X carries the id of
\* the message it was built from; envelopes with other ids or with none are
\* passed over (they stay pending) and the only error such a wait raises is
\* its timeout.
C7_IdFilter ==
  \A s \in Sessions :
    /\ (pc[s] = "block" /\ expected_id[s] # NoId) =>
         /\ IdOf(broker_message[s]) = expected_id[s]
         /\ SSEPullMessage(expected_id[s], broker_message[s]).transfer_process_id
              = IdOf(broker_message[s])
    /\ (Exited(s) /\ sh[s].origin = "wait") =>
         /\ raised[s] = TimeoutError
         /\ broker_message[s] = NoDelivery

C7_Witness ==
  \E s, t \in Sessions :
    /\ pc[s] = "block" /\ expected_id[s] = "tx-1"
    /\ IdOf(broker_message[s]) = "tx-1"
    /\ Exited(t) /\ expected_id[t] = "tx-2" /\ raised[t] = TimeoutError
    /\ \E d \in Range(messages) : IdOf(d) = "tx-1"
    /\ \A d \in Range(messages) : IdOf(d) # "tx-2"

\* C8: a wait never waits forever: it raises its timeout no earlier than
\* timeout_seconds and no later than timeout_seconds plus one poll interval
\* after the call, without an envelope, and a wait that is still polling has
\* not reached timeout_seconds plus one poll interval.
C8_TimeoutWindow ==
  \A s \in Sessions :
    /\ (Exited(s) /\ sh[s].origin = "wait") =>
         /\ raised[s] = TimeoutError
         /\ elapsed[s] >= timeout_seconds[s]
         /\ elapsed[s] <= timeout_seconds[s] + PollInterval
         /\ broker_message[s] = NoDelivery
    /\ pc[s] = "sleep" =>
         /\ elapsed[s] < timeout_seconds[s] + PollInterval
         /\ wake_at[s] < timeout_seconds[s] + PollInterval

C8_Witness ==
  \E s \in Sessions :
    /\ Exited(s) /\ sh[s].origin = "wait" /\ raised[s] = TimeoutError
    /\ timeout_seconds[s] = 1
    /\ elapsed[s] = PollInterval
    /\ messages = <<>>

\* C9: the timeout of a wait is a condition of its own: an error a session
\* re-raises from its caller's block is never the timeout condition.
C9_TimeoutDistinct ==
  \A s \in Sessions :
    (Exited(s) /\ sh[s].origin = "block") => raised[s] # TimeoutError

\* The step in which the wait of session s raises its timeout.
TimeoutStep(s) == pc[s] # "done" /\ pc'[s] = "done" /\ sh'[s].origin = "wait"

\* C10: a timeout ends only the wait that raised it: the step leaves the
\* pending store, the envelopes, the broker calls and every other session as
\* they were, and a payload that parses is stored as before when it arrives
\* after a timeout.
C10_TimeoutEndsOnlyTheWait ==
  [][/\ \A s \in Sessions :
          TimeoutStep(s) =>
            /\ messages' = messages
            /\ consumed' = consumed
            /\ bm_message' = bm_message
            /\ acks' = acks /\ nacks' = nacks
            /\ delivered' = delivered
            /\ \A t \in Sessions \ {s} :
                 /\ pc'[t] = pc[t]
                 /\ broker_message'[t] = broker_message[t]
                 /\ raised'[t] = raised[t]
     /\ \A p \in Payloads :
          (timeout_mark > 0 /\ HandleMessage(p) /\ WellFormed(message_class, p)) =>
            /\ messages' = Append(messages, delivered + 1)
            /\ nacks' = nacks]_vars

\* A wait timed out, a message arrived after that, and a later wait was handed
\* it.
C10_Witness ==
  \E s \in Sessions :
    /\ pc[s] = "block"
    /\ timeout_mark > 0
    /\ broker_message[s] >= timeout_mark

\* C11: with automatic acknowledgement no ack and no nack call is ever made on
\* any delivery, whether a session exits normally, exits with its block's
\* error, or a payload fails to parse; a session that exits still leaves its
\* envelope consumed and out of the pending store.
C11_AutoAckNoBrokerCalls ==
  auto_acknowledge =>
    /\ \A d \in Deliveries : acks[d] = 0 /\ nacks[d] = 0
    /\ \A s \in Sessions :
         (Exited(s) /\ sh[s].origin \in {"None", "block"}) =>
           /\ sh[s].acks = 0 /\ sh[s].nacks = 0
           /\ consumed[broker_message[s]]
           /\ broker_message[s] \notin Range(messages)

\* A malformed payload was ingested and a session left with its block's error.
C11_Witness ==
  /\ auto_acknowledge
  /\ \E d \in 1..delivered : ~Parsed(d)
  /\ \E s \in Sessions :
       /\ Exited(s) /\ sh[s].origin = "block"
       /\ consumed[broker_message[s]]
       /\ broker_message[s] \notin Range(messages)

\* ------------------------------------------------------------ provisioning and streams
\* Polls of wait_for_message that fit in the largest stream timeout.
MaxStreamPolls == 2

\* The time a stream timeout lasts: whole seconds, so a multiple of the poll
\* interval; the streams are run for the first MaxStreamPolls of them.
StreamTimeouts == {k * PollInterval : k \in 1..MaxStreamPolls}

StreamPull == "stream_pull_messages"
StreamPush == "stream_push_messages"
WithConsumer == "with_consumer_messaging_app"
StartConsumer == "start_consumer_messaging_app"
Lifespan == "lifespan"
Streams == {StreamPull, StreamPush}
Entries == Streams \cup {WithConsumer, StartConsumer, Lifespan}

IsStream == entry \in Streams
\* Every entry but the lifespan's publisher app provisions a consumer queue.
IsConsumer == entry # Lifespan

DEFAULT_EXCHANGE_NAME == "edcpy-topic-exchange"

\* The exchange names a caller of start_consumer_messaging_app or of
\* with_consumer_messaging_app passes; the streams and the lifespan pass none.
ExchangeNames == {DEFAULT_EXCHANGE_NAME, "other-exchange"}

\* _create_messaging_app_base(exchange_name, config): the name its exchange
\* is made with.  start_publisher_messaging_app passes its argument on;
\* _create_messaging_app_consumer is not given the argument of
\* start_consumer_messaging_app and calls _create_messaging_app_base(config=
\* config), so the default applies.
BaseExchangeName(name) ==
  IF IsConsumer THEN DEFAULT_EXCHANGE_NAME ELSE name

\* The transfer process id and the routing path of the stream request.
StreamId == "tx-1"
RoutingPath == "routing/path"

\* Bearer credentials of a request; the server's key is "server-key".
ServerKey == "server-key"
Credentials == {"None", "wrong-key", ServerKey}
Authorized == "authorized"

\* Variant: a check that lets every request through.
VerifyNothing(key_set, c) == Authorized

\* Depends(security) and verify_api_key: HTTPBearer rejects a request without
\* credentials, get_api_key one made while no key is configured, and
\* verify_api_key one whose credential is not the key.
VerifyApiKey(key_set, c) ==
  IF c = "None" THEN "HTTP_403_FORBIDDEN"
  ELSE IF ~key_set THEN "HTTP_500_INTERNAL_SERVER_ERROR"
  ELSE IF c # ServerKey THEN "HTTP_401_UNAUTHORIZED"
  ELSE Authorized

ValueErrorNoUrl == "ValueError: RabbitMQ URL is not set"
DidNotYield == "RuntimeError: generator didn't yield"
ConnectionError == "ConnectionError"
CloseError == "CloseError"
GeneratorExit == "GeneratorExit"

\* with_consumer_messaging_app, entered while start_consumer_messaging_app
\* raises e: messaging_app is still None, so the finally clause returns; the
\* return discards e, the generator ends without a yield, and the context
\* manager's __aenter__ raises RuntimeError("generator didn't yield").
ContextEnterError(e) == DidNotYield

\* Variant: a teardown that lets the error of broker.close() out.
CloseErrorPropagates(e, ok) == IF ok THEN e ELSE CloseError

\* with_consumer_messaging_app / lifespan: the exception that is in flight
\* after the close attempt; an error of broker.close() is logged and dropped.
AfterClose(e, ok) == e

SSEErrorMessage(message, transfer_process_id, routing_path) ==
  [type |-> "error",
   message |-> message,
   transfer_process_id |-> transfer_process_id,
   routing_path |-> routing_path]

SSEPushMessage(routing_path, d) ==
  [type |-> "push_message", routing_path |-> routing_path, delivery |-> d]

\* Variant: a failure that is rendered as the frame of a message.
FrameOfMessage(e) == SSEPullMessage(StreamId, 1)

\* _stream_pull_messages / _stream_push_messages, except Exception as e
ErrorChunk(e) ==
  IF entry = StreamPull THEN SSEErrorMessage(e, StreamId, NoId)
  ELSE SSEErrorMessage(e, NoId, RoutingPath)

\* The frame of the stream's message (its envelope is the handler's first).
MessageChunk ==
  IF entry = StreamPull THEN SSEPullMessage(StreamId, 1)
  ELSE SSEPushMessage(RoutingPath, 1)

\* wait_for_message of the stream: expected_id is the transfer process id for
\* a pull stream and None for a push stream.
StreamMatches(id) == entry = StreamPush \/ id = StreamId

\* Variant: a provisioning that registers no handler.
RegisterNothing == FALSE

\* broker.subscriber(queue=queue, exchange=exchange, no_ack=False)(handler)
RegisterHandler == TRUE

\* Positions at which the stream's task is suspended on something that takes
\* time: the broker calls of the provisioning and the sleep of the wait.
AwaitPcs == {"start", "declare_exchange", "declare_queue", "sleep"}

\* Where the entry goes on once its messaging app is there.
ReadyPc ==
  CASE entry = Lifespan -> "serving"
    [] entry = StartConsumer -> "returned"
    [] entry = WithConsumer -> "block"
    [] OTHER -> "wait"

BackendInit ==
  /\ entry \in Entries
  /\ exchange_name \in
       (IF entry \in {WithConsumer, StartConsumer} THEN ExchangeNames
        ELSE {DEFAULT_EXCHANGE_NAME})
  /\ exchange = "None"
  /\ rabbit_url \in BOOLEAN
  /\ api_key \in (IF entry \in Streams THEN BOOLEAN ELSE {FALSE})
  /\ credentials = "None"
  /\ stream_timeout = 0
  /\ query_timeout = 0
  /\ timeout_arg = 0
  /\ bpc = IF entry \in Streams THEN "request" ELSE "base"
  /\ broker_state = "None"
  /\ subscriber = FALSE
  /\ declared = {}
  /\ close_calls = 0
  /\ messaging_app = FALSE
  /\ clock = 0
  /\ deadline = 0
  /\ wait_start = 0
  /\ wake = 0
  /\ stored = FALSE
  /\ held = FALSE
  /\ stream_acks = 0
  /\ stream_nacks = 0
  /\ disconnected = FALSE
  /\ error = NoError
  /\ chunk = NoChunk
  /\ frames = <<>>
  /\ observed = NoError
  /\ failure = "None"
  /\ disc_waiting = FALSE
  /\ outer_fired = FALSE

\* SSEStreamParams: timeout: int = Field(300, ge=1, le=7200)
TimeoutGe == 1
TimeoutLe == 7200

\* The timeout query parameters a request is made with, in seconds.
QueryTimeouts == {0, 1, 7200, 7201}

ValidationError == "HTTP_422_UNPROCESSABLE_ENTITY"

\* Variant: the upper limit of an earlier version.
StreamParamsLe3600(q) == q >= TimeoutGe /\ q <= 3600

\* SSEStreamParams: the timeout passes the validation of its field.
StreamParamsValid(q) == q >= TimeoutGe /\ q <= TimeoutLe

\* The stream endpoint is called: its dependencies are resolved first
\* (params: SSEStreamParams, then verify_api_key).  An HTTPException of
\* verify_api_key ends the request at once; the validation errors of the
\* query parameters are reported when the dependencies are resolved.  The
\* response is built only for a request that passes both, and the generator
\* starts with it (start_time, and the timer of asyncio.wait_for).  The
\* timeout is passed on as it came; t is the time it lasts, in ticks.
Authorize(c, q, t) ==
  /\ bpc = "request"
  /\ credentials' = c
  /\ query_timeout' = q
  /\ IF VerifyApiKey(api_key, c) # Authorized
       THEN /\ bpc' = "rejected"
            /\ observed' = VerifyApiKey(api_key, c)
            /\ UNCHANGED <<stream_timeout, timeout_arg, deadline>>
       ELSE IF ~StreamParamsValid(q)
         THEN /\ bpc' = "rejected"
              /\ observed' = ValidationError
              /\ UNCHANGED <<stream_timeout, timeout_arg, deadline>>
         ELSE /\ bpc' = "base"
              /\ timeout_arg' = q
              /\ stream_timeout' = t
              /\ deadline' = t
              /\ UNCHANGED observed
  /\ UNCHANGED <<entry, exchange_name, exchange, rabbit_url, api_key, broker_state, subscriber,
                 declared, close_calls, messaging_app, clock, wait_start,
                 wake, stored, held, stream_acks, stream_nacks, disconnected,
                 error, chunk, frames, failure, disc_waiting, outer_fired>>

\* Variant: a failed step that is passed over, the app being handed out.
ProvisioningIgnored(step, e) ==
  /\ failure' = step
  /\ bpc' = ReadyPc
  /\ UNCHANGED <<observed, chunk>>

\* A step of the provisioning raises e: start_*_messaging_app raises it to its
\* caller; the caller of the context manager gets the error of its entry; a
\* stream catches that one and yields an error chunk.
ProvisioningFails(step, e) ==
  /\ failure' = step
  /\ IF entry \in {StartConsumer, Lifespan}
       THEN /\ observed' = e
            /\ bpc' = "raised"
            /\ UNCHANGED chunk
       ELSE IF entry = WithConsumer
         THEN /\ observed' = ContextEnterError(e)
              /\ bpc' = "raised"
              /\ UNCHANGED chunk
         ELSE /\ chunk' = ErrorChunk(ContextEnterError(e))
              /\ bpc' = "chunk"
              /\ UNCHANGED observed

\* start_*_messaging_app returned: the MessagingApp is there.
AppReady ==
  /\ messaging_app' = TRUE
  /\ bpc' = ReadyPc
  /\ wait_start' = clock

\* _create_messaging_app_base up to its yield.
CreateBase ==
  /\ bpc = "base"
  /\ IF ~rabbit_url
       THEN /\ ProvisioningFails("rabbit_url", ValueErrorNoUrl)
            /\ UNCHANGED <<broker_state, exchange>>
       ELSE /\ broker_state' = "created"
            /\ exchange' = BaseExchangeName(exchange_name)
            /\ bpc' = IF IsConsumer THEN "subscribe" ELSE "start"
            /\ UNCHANGED <<failure, observed, chunk>>
  /\ UNCHANGED <<entry, exchange_name, rabbit_url, api_key, credentials, stream_timeout,
                 query_timeout, timeout_arg,
                 subscriber, declared, close_calls, messaging_app, clock,
                 deadline, wait_start, wake, stored, held, stream_acks,
                 stream_nacks, disconnected, error, frames, disc_waiting,
                 outer_fired>>

\* _create_messaging_app_consumer: the body of its `async with`.
Subscribe ==
  /\ bpc = "subscribe"
  /\ subscriber' = RegisterHandler
  /\ bpc' = "start"
  /\ UNCHANGED <<entry, exchange_name, exchange, rabbit_url, api_key, credentials, stream_timeout,
                 query_timeout, timeout_arg,
                 broker_state, declared, close_calls, messaging_app, clock,
                 deadline, wait_start, wake, stored, held, stream_acks,
                 stream_nacks, disconnected, error, chunk, frames, observed,
                 failure, disc_waiting, outer_fired>>

\* _create_messaging_app_base after its yield: await broker.start()
BrokerStart(ok) ==
  /\ bpc = "start"
  /\ IsStream => clock < deadline
  /\ IF ok
       THEN /\ broker_state' = "started"
            /\ bpc' = "declare_exchange"
            /\ UNCHANGED <<failure, observed, chunk>>
       ELSE /\ ProvisioningFails("broker.start", ConnectionError)
            /\ UNCHANGED broker_state
  /\ UNCHANGED <<entry, exchange_name, exchange, rabbit_url, api_key, credentials, stream_timeout,
                 query_timeout, timeout_arg,
                 subscriber, declared, close_calls, messaging_app, clock,
                 deadline, wait_start, wake, stored, held, stream_acks,
                 stream_nacks, disconnected, error, frames, disc_waiting,
                 outer_fired>>

\* await broker.declare_exchange(topic_exchange)
DeclareExchange(ok) ==
  /\ bpc = "declare_exchange"
  /\ IsStream => clock < deadline
  /\ IF ok
       THEN /\ declared' = declared \cup {"exchange"}
            /\ IF IsConsumer
                 THEN /\ bpc' = "declare_queue"
                      /\ UNCHANGED <<messaging_app, wait_start>>
                 ELSE AppReady
            /\ UNCHANGED <<failure, observed, chunk>>
       ELSE /\ ProvisioningFails("declare_exchange", ConnectionError)
            /\ UNCHANGED <<declared, messaging_app, wait_start>>
  /\ UNCHANGED <<entry, exchange_name, exchange, rabbit_url, api_key, credentials, stream_timeout,
                 query_timeout, timeout_arg,
                 broker_state, subscriber, close_calls, clock, deadline,
                 wake, stored, held, stream_acks, stream_nacks, disconnected,
                 error, frames, disc_waiting, outer_fired>>

\* await broker.declare_queue(queue)
DeclareQueue(ok) ==
  /\ bpc = "declare_queue"
  /\ IsStream => clock < deadline
  /\ IF ok
       THEN /\ declared' = declared \cup {"queue"}
            /\ AppReady
            /\ UNCHANGED <<failure, observed, chunk>>
       ELSE /\ ProvisioningFails("declare_queue", ConnectionError)
            /\ UNCHANGED <<declared, messaging_app, wait_start>>
  /\ UNCHANGED <<entry, exchange_name, exchange, rabbit_url, api_key, credentials, stream_timeout,
                 query_timeout, timeout_arg,
                 broker_state, subscriber, close_calls, clock, deadline,
                 wake, stored, held, stream_acks, stream_nacks, disconnected,
                 error, frames, disc_waiting, outer_fired>>

\* The broker delivers a message with this id to the stream's queue and the
\* handler stores it (handle_message).
Ingest(id) ==
  /\ IsStream
  /\ broker_state = "started"
  /\ subscriber
  /\ bpc \in AwaitPcs
  /\ clock < deadline
  /\ ~stored
  /\ stored' = StreamMatches(id)
  /\ UNCHANGED <<entry, exchange_name, exchange, rabbit_url, api_key, credentials, stream_timeout,
                 query_timeout, timeout_arg,
                 bpc, broker_state, subscriber, declared, close_calls,
                 messaging_app, clock, deadline, wait_start, wake, held,
                 stream_acks, stream_nacks, disconnected, error, chunk,
                 frames, observed, failure, disc_waiting, outer_fired>>

\* wait_for_message of the stream's session: one pass of its loop, at the
\* call and after each sleep.
WaitPass ==
  /\ \/ bpc = "wait"
     \/ /\ bpc = "sleep"
        /\ clock - wait_start >= wake
        /\ clock < deadline
  /\ IF TimedOut(clock - wait_start, stream_timeout)
       THEN /\ error' = TimeoutError
            /\ bpc' = "exit"
            /\ UNCHANGED <<wake, held>>
       ELSE IF stored
         THEN /\ bpc' = "build"
              /\ held' = TRUE
              /\ UNCHANGED <<error, wake>>
         ELSE /\ bpc' = "sleep"
              /\ wake' = SleepExpiry(clock - wait_start)
              /\ UNCHANGED <<error, held>>
  /\ UNCHANGED <<entry, exchange_name, exchange, rabbit_url, api_key, credentials, stream_timeout,
                 query_timeout, timeout_arg,
                 broker_state, subscriber, declared, close_calls,
                 messaging_app, clock, deadline, wait_start, stored,
                 stream_acks, stream_nacks, disconnected, chunk, frames,
                 observed, failure, disc_waiting, outer_fired>>

\* The block of the stream's session: the frame is built from the message
\* and yielded; HttpPullMessage.request_args raises ValueError when the auth
\* code names no method, and process_message then nacks, marks the envelope
\* consumed and re-raises.
BuildFrame(ok) ==
  /\ bpc = "build"
  /\ IF ok
       THEN /\ chunk' = MessageChunk
            /\ bpc' = "chunk"
            /\ UNCHANGED <<error, held, stored, stream_nacks>>
       ELSE /\ entry = StreamPull
            /\ stream_nacks' = stream_nacks + 1
            /\ stored' = FALSE
            /\ held' = FALSE
            /\ error' = "ValueError"
            /\ bpc' = "exit"
            /\ UNCHANGED chunk
  /\ UNCHANGED <<entry, exchange_name, exchange, rabbit_url, api_key, credentials, stream_timeout,
                 query_timeout, timeout_arg,
                 broker_state, subscriber, declared, close_calls,
                 messaging_app, clock, deadline, wait_start, wake,
                 stream_acks, disconnected, frames, observed, failure,
                 disc_waiting, outer_fired>>

\* A chunk goes up: the stream generator drops it and ends if the peer is
\* gone; robust_stream_wrapper drops it and ends if the stream timeout has
\* elapsed; else it is sent.
Deliver ==
  /\ bpc = "chunk"
  /\ chunk' = NoChunk
  /\ IF disconnected \/ TimedOut(clock, stream_timeout)
       THEN /\ bpc' = "ended"
            /\ UNCHANGED frames
       ELSE /\ frames' = Append(frames, chunk)
            /\ bpc' = "sent"
  /\ UNCHANGED <<entry, exchange_name, exchange, rabbit_url, api_key, credentials, stream_timeout,
                 query_timeout, timeout_arg,
                 broker_state, subscriber, declared, close_calls,
                 messaging_app, clock, deadline, wait_start, wake, stored,
                 held, stream_acks, stream_nacks, disconnected, error,
                 observed, failure, disc_waiting, outer_fired>>

\* The response asks for the next chunk: the session is left (_safe_ack,
\* mark_consumed) if the chunk was a message; after an error chunk the
\* generator just ends.
Resume ==
  /\ bpc = "sent"
  /\ IF held
       THEN /\ stream_acks' = stream_acks + 1
            /\ stored' = FALSE
            /\ held' = FALSE
            /\ error' = NoError
            /\ bpc' = "exit"
       ELSE /\ bpc' = "ended"
            /\ UNCHANGED <<stream_acks, stored, held, error>>
  /\ UNCHANGED <<entry, exchange_name, exchange, rabbit_url, api_key, credentials, stream_timeout,
                 query_timeout, timeout_arg,
                 broker_state, subscriber, declared, close_calls,
                 messaging_app, clock, deadline, wait_start, wake,
                 stream_nacks, disconnected, chunk, frames, observed,
                 failure, disc_waiting, outer_fired>>

\* The response stops iterating because the peer is gone.
ClientGone ==
  /\ bpc = "sent"
  /\ disconnected
  /\ bpc' = "ended"
  /\ UNCHANGED <<entry, exchange_name, exchange, rabbit_url, api_key, credentials, stream_timeout,
                 query_timeout, timeout_arg,
                 broker_state, subscriber, declared, close_calls,
                 messaging_app, clock, deadline, wait_start, wake, stored,
                 held, stream_acks, stream_nacks, disconnected, error, chunk,
                 frames, observed, failure, disc_waiting, outer_fired>>

\* Variant: a finalization that acknowledges the delivery on its way out.
FinalizeWithAck ==
  /\ bpc = "ended"
  /\ held
  /\ held' = FALSE
  /\ stream_acks' = stream_acks + 1
  /\ error' = GeneratorExit
  /\ bpc' = "exit"
  /\ UNCHANGED <<entry, exchange_name, exchange, rabbit_url, api_key, credentials,
                 stream_timeout, query_timeout, timeout_arg,
                 broker_state, subscriber, declared, close_calls,
                 messaging_app, clock, deadline, wait_start, wake, stored,
                 stream_nacks, disconnected, chunk, frames,
                 observed, failure, disc_waiting, outer_fired>>

\* The generator that was left suspended at its yield is finalized: aclose()
\* throws GeneratorExit into it, which process_message does not catch.
Finalize ==
  /\ bpc = "ended"
  /\ held
  /\ held' = FALSE
  /\ error' = GeneratorExit
  /\ bpc' = "exit"
  /\ UNCHANGED <<entry, exchange_name, exchange, rabbit_url, api_key, credentials, stream_timeout,
                 query_timeout, timeout_arg,
                 broker_state, subscriber, declared, close_calls,
                 messaging_app, clock, deadline, wait_start, wake, stored,
                 stream_acks, stream_nacks, disconnected, chunk, frames,
                 observed, failure, disc_waiting, outer_fired>>

\* The timer of asyncio.wait_for expires while the generator is suspended:
\* the task is cancelled.  During the wait the CancelledError leaves through
\* the consumer context; during the provisioning it is discarded by the
\* return of the finally clause and the stream yields an error chunk.
OuterTimeout ==
  /\ IsStream
  /\ bpc \in AwaitPcs
  /\ clock >= deadline
  /\ outer_fired' = TRUE
  /\ IF messaging_app
       THEN /\ error' = CancelledError
            /\ bpc' = "exit"
            /\ UNCHANGED chunk
       ELSE /\ chunk' = ErrorChunk(ContextEnterError(CancelledError))
            /\ bpc' = "chunk"
            /\ UNCHANGED error
  /\ UNCHANGED <<entry, exchange_name, exchange, rabbit_url, api_key, credentials, stream_timeout,
                 query_timeout, timeout_arg,
                 broker_state, subscriber, declared, close_calls,
                 messaging_app, clock, deadline, wait_start, wake, stored,
                 held, stream_acks, stream_nacks, disconnected, frames,
                 observed, failure, disc_waiting>>

\* The block of a caller of with_consumer_messaging_app returns or raises.
BlockEnds(e) ==
  /\ bpc = "block"
  /\ error' = e
  /\ bpc' = "exit"
  /\ UNCHANGED <<entry, exchange_name, exchange, rabbit_url, api_key, credentials, stream_timeout,
                 query_timeout, timeout_arg,
                 broker_state, subscriber, declared, close_calls,
                 messaging_app, clock, deadline, wait_start, wake, stored,
                 held, stream_acks, stream_nacks, disconnected, chunk,
                 frames, observed, failure, disc_waiting, outer_fired>>

\* with_consumer_messaging_app, finally: one close attempt, then the
\* exception in flight goes on to the caller; a stream turns an Exception
\* into an error chunk, and ends on a cancellation or a GeneratorExit.
ContextExit(ok) ==
  /\ bpc = "exit"
  /\ close_calls' = close_calls + 1
  /\ broker_state' = IF ok THEN "closed" ELSE broker_state
  /\ IF ~IsStream
       THEN /\ observed' = AfterClose(error, ok)
            /\ bpc' = "exited"
            /\ UNCHANGED chunk
       ELSE IF AfterClose(error, ok) \in {NoError, CancelledError, GeneratorExit}
         THEN /\ bpc' = "ended"
              /\ UNCHANGED <<observed, chunk>>
         ELSE /\ chunk' = ErrorChunk(AfterClose(error, ok))
              /\ bpc' = "chunk"
              /\ UNCHANGED observed
  /\ UNCHANGED <<entry, exchange_name, exchange, rabbit_url, api_key, credentials, stream_timeout,
                 query_timeout, timeout_arg,
                 subscriber, declared, messaging_app, clock, deadline,
                 wait_start, wake, stored, held, stream_acks, stream_nacks,
                 disconnected, error, frames, failure, disc_waiting,
                 outer_fired>>

\* lifespan after its yield: the server shuts down.
Shutdown(ok) ==
  /\ bpc = "serving"
  /\ close_calls' = close_calls + 1
  /\ broker_state' = IF ok THEN "closed" ELSE broker_state
  /\ observed' = AfterClose(NoError, ok)
  /\ bpc' = "exited"
  /\ UNCHANGED <<entry, exchange_name, exchange, rabbit_url, api_key, credentials, stream_timeout,
                 query_timeout, timeout_arg,
                 subscriber, declared, messaging_app, clock, deadline,
                 wait_start, wake, stored, held, stream_acks, stream_nacks,
                 disconnected, error, chunk, frames, failure, disc_waiting,
                 outer_fired>>

\* The remote peer of the stream goes away.
Disconnect ==
  /\ IsStream
  /\ bpc \notin {"request", "rejected", "ended"}
  /\ ~disconnected
  /\ disconnected' = TRUE
  /\ disc_waiting' = (bpc = "sleep")
  /\ UNCHANGED <<entry, exchange_name, exchange, rabbit_url, api_key, credentials, stream_timeout,
                 query_timeout, timeout_arg,
                 bpc, broker_state, subscriber, declared, close_calls,
                 messaging_app, clock, deadline, wait_start, wake, stored,
                 held, stream_acks, stream_nacks, error, chunk, frames,
                 observed, failure, outer_fired>>

\* Time passes while the stream's task is suspended.
StreamTick ==
  /\ IsStream
  /\ bpc \in AwaitPcs
  /\ clock < deadline
  /\ bpc = "sleep" => clock - wait_start < wake
  /\ clock' = clock + 1
  /\ UNCHANGED <<entry, exchange_name, exchange, rabbit_url, api_key, credentials, stream_timeout,
                 query_timeout, timeout_arg,
                 bpc, broker_state, subscriber, declared, close_calls,
                 messaging_app, deadline, wait_start, wake, stored, held,
                 stream_acks, stream_nacks, disconnected, error, chunk,
                 frames, observed, failure, disc_waiting, outer_fired>>

BackendNext ==
  \/ \E c \in Credentials, q \in QueryTimeouts, t \in StreamTimeouts :
       Authorize(c, q, t) /\ UNCHANGED <<vars, otherVars>>
  \/ CreateBase /\ UNCHANGED <<vars, otherVars>>
  \/ Subscribe /\ UNCHANGED <<vars, otherVars>>
  \/ \E ok \in BOOLEAN : BrokerStart(ok) /\ UNCHANGED <<vars, otherVars>>
  \/ \E ok \in BOOLEAN : DeclareExchange(ok) /\ UNCHANGED <<vars, otherVars>>
  \/ \E ok \in BOOLEAN : DeclareQueue(ok) /\ UNCHANGED <<vars, otherVars>>
  \/ \E id \in Ids : Ingest(id) /\ UNCHANGED <<vars, otherVars>>
  \/ WaitPass /\ UNCHANGED <<vars, otherVars>>
  \/ \E ok \in BOOLEAN : BuildFrame(ok) /\ UNCHANGED <<vars, otherVars>>
  \/ Deliver /\ UNCHANGED <<vars, otherVars>>
  \/ Resume /\ UNCHANGED <<vars, otherVars>>
  \/ ClientGone /\ UNCHANGED <<vars, otherVars>>
  \/ Finalize /\ UNCHANGED <<vars, otherVars>>
  \/ OuterTimeout /\ UNCHANGED <<vars, otherVars>>
  \/ \E e \in ProcessingErrors \cup {NoError} : BlockEnds(e) /\ UNCHANGED <<vars, otherVars>>
  \/ \E ok \in BOOLEAN : ContextExit(ok) /\ UNCHANGED <<vars, otherVars>>
  \/ \E ok \in BOOLEAN : Shutdown(ok) /\ UNCHANGED <<vars, otherVars>>
  \/ Disconnect /\ UNCHANGED <<vars, otherVars>>
  \/ StreamTick /\ UNCHANGED <<vars, otherVars>>

\* One call into the provisioning code, or one stream; the handler of the
\* first part is the one a stream creates (manual acknowledgement, the
\* message class of the stream).
BackendStart ==
  /\ Init
  /\ BackendInit
  /\ OtherIdle
  /\ ~auto_acknowledge
  /\ message_class = (IF entry = StreamPush THEN HttpPushMessage ELSE HttpPullMessage)

BackendSpec == BackendStart /\ [][BackendNext]_<<vars, backendVars, otherVars>>

\* ------------------------------------------------------------ properties of the backend
\* The stream generator has finished.
StreamEnded == IsStream /\ bpc = "ended"

\* C12: every stream sends exactly one frame before it ends, whichever way
\* its wait ends (message, timeout, processing error, provisioning error):
\* never more than one frame, and one frame once the stream has ended with
\* its peer still there.
C12_ExactlyOneFrame ==
  /\ Len(frames) <= 1
  /\ (StreamEnded /\ ~disconnected) => Len(frames) = 1

\* C13: a pull stream whose provisioning succeeded and for which no message
\* was ingested ends, if its peer is still there, having sent one frame of
\* type error that carries its transfer process id, no later than a poll
\* interval after its timeout.
C13_TimeoutIsAnErrorFrame ==
  ( /\ entry = StreamPull /\ bpc = "ended" /\ ~disconnected
    /\ failure = "None" /\ messaging_app
    /\ ~stored /\ stream_acks = 0 /\ stream_nacks = 0 ) =>
      /\ Len(frames) = 1
      /\ frames[1].type = "error"
      /\ frames[1].transfer_process_id = StreamId
      /\ clock <= stream_timeout + PollInterval

\* C14: when a stream has ended, on whichever way, its consumer is closed: a
\* broker that was started has had its close call, and the session no longer
\* holds an envelope.
C14_ClosedWhenStreamEnds ==
  StreamEnded =>
    /\ broker_state = "started" => close_calls >= 1
    /\ ~held

\* C15: once the peer has left while the stream waits for its message, the
\* wait is ended at its next poll: it is not put back to sleep for another
\* poll interval.
C15_DisconnectEndsTheWait ==
  [][disc_waiting => wake' = wake]_<<vars, backendVars>>

\* The request carries the key the server holds.
RequestAuthorized == api_key /\ credentials = ServerKey

\* C16: a stream request that is not authorized (no credential, a wrong one,
\* or no key configured on the server) is rejected with an HTTP error before
\* anything is provisioned: no broker is created, no handler registered,
\* nothing declared.
C16_RejectedBeforeProvisioning ==
  (IsStream /\ ~RequestAuthorized) =>
    /\ bpc \in {"request", "rejected"}
    /\ broker_state = "None"
    /\ ~subscriber
    /\ declared = {}
    /\ ~messaging_app
    /\ bpc = "rejected" =>
         observed \in {"HTTP_401_UNAUTHORIZED", "HTTP_403_FORBIDDEN",
                       "HTTP_500_INTERNAL_SERVER_ERROR"}

C16_Witness ==
  /\ IsStream /\ bpc = "rejected"
  /\ api_key /\ credentials = "wrong-key"
  /\ observed = "HTTP_401_UNAUTHORIZED"
  /\ broker_state = "None"

\* C17: in every consumer provisioning the handler is registered before the
\* broker connection is started: a started (or closed) broker of a consumer
\* has its subscriber, and a delivery is only ever stored by a registered
\* handler.
C17_SubscriberBeforeStart ==
  /\ (IsConsumer /\ broker_state \in {"started", "closed"}) => subscriber
  /\ stored => subscriber

C17_Witness ==
  /\ IsConsumer
  /\ broker_state = "started"
  /\ subscriber
  /\ stored

C19_ProvisioningFailureRaises ==
  failure # "None" =>
    /\ ~messaging_app
    /\ bpc \in {"raised", "chunk", "sent", "ended"}
    /\ ~IsStream => (bpc = "raised" /\ observed # NoError)
    /\ IsStream =>
         /\ ~held
         /\ chunk # NoChunk => chunk.type = "error"
         /\ \A i \in 1..Len(frames) : frames[i].type = "error"

C19_Witness ==
  /\ entry = WithConsumer
  /\ failure = "declare_queue"
  /\ bpc = "raised"
  /\ observed # NoError

\* C20: with no RabbitMQ URL configured, every entry fails with the ValueError
\* "RabbitMQ URL is not set" and no broker is created: the publisher app, the
\* consumer app and the entry of the with_consumer_messaging_app context.
C20_NoUrlIsValueError ==
  (~rabbit_url /\ bpc = "raised") =>
    /\ observed = ValueErrorNoUrl
    /\ broker_state = "None"

C37_ClosedAfterFailedDeclaration ==
  (IsConsumer /\ failure \in {"declare_exchange", "declare_queue"}) =>
    close_calls >= 1

\* C38: the delivery of a stream is acked only once its frame has been sent:
\* an ack call implies that the message frame is among the frames sent, and a
\* stream that was abandoned with its frame unsent has made no ack call.
C38_AckOnlyAfterFrame ==
  IsStream =>
    /\ stream_acks > 0 => (Len(frames) = 1 /\ frames[1] = MessageChunk)
    /\ stream_acks <= 1
    /\ error = GeneratorExit => stream_acks = 0

C38_Witness ==
  /\ IsStream
  /\ stream_acks = 1
  /\ frames = <<MessageChunk>>
  /\ ~held

\* C39: the exchange a consumer's handler is subscribed on, and that is
\* declared for it, is the one the exchange_name argument names.
C39_ExchangeIsTheArgument ==
  (IsConsumer /\ (subscriber \/ "exchange" \in declared)) =>
    exchange = exchange_name

\* ------------------------------------------------------------ redelivery
\* rabbit_message.nack() is called without arguments, and requeue defaults to
\* True: the broker puts the message back into the queue it came from.
NackRequeue == TRUE

\* The queue after the delivery of its head was nacked (put back at its
\* place) or not (left unacknowledged with the consumer or acknowledged).
AfterDelivery(queue, item, nacked) ==
  IF nacked /\ NackRequeue THEN <<item>> \o Tail(queue) ELSE Tail(queue)

\* A message with payload p is routed to the queue.
Publish(p) ==
  /\ Len(ready) < MaxDeliveries
  /\ ready' = Append(ready, [payload |-> p, first |-> NoDelivery])
  /\ UNCHANGED first_delivery

\* The broker delivers the head of the queue: handle_message runs on it.
BrokerDelivery ==
  /\ ready # <<>>
  /\ HandleMessage(Head(ready).payload)
  /\ LET d == delivered + 1
         first == IF Head(ready).first = NoDelivery THEN d ELSE Head(ready).first
     IN /\ first_delivery' = Append(first_delivery, first)
        /\ ready' = AfterDelivery(ready,
                                  [payload |-> Head(ready).payload, first |-> first],
                                  nacks'[d] > nacks[d])

RedeliveryNext ==
  \/ \E p \in Payloads :
       /\ Publish(p)
       /\ UNCHANGED <<vars, backendVars, routingVars, facadeVars, consumerVars>>
  \/ BrokerDelivery /\ UNCHANGED <<backendVars, routingVars, facadeVars, consumerVars>>

\* The handler behind its queue, without sessions.
RedeliveryStart ==
  /\ Init
  /\ BackendIdle
  /\ RoutingIdle
  /\ FacadeIdle
  /\ RedeliveryIdle
  /\ ConsumerIdle

RedeliverySpec ==
  RedeliveryStart /\ [][RedeliveryNext]_<<vars, backendVars, otherVars>>

\* The deliveries made of the message that delivery d is of.
DeliveriesOf(d) ==
  {e \in 1..Len(first_delivery) : first_delivery[e] = first_delivery[d]}

\* C28: a malformed message is not redelivered after its negative
\* acknowledgment: the handler parses it at most once.
C28_MalformedParsedOnce ==
  \A d \in 1..Len(first_delivery) :
    ~Parsed(d) => Cardinality(DeliveriesOf(d)) <= 1

\* ------------------------------------------------------------ session exits
\* C27: with manual acknowledgement, a session that was handed an envelope
\* has made exactly one terminal call (ack or nack) on it when it exits,
\* whether its block returned, raised an error, or was cancelled or closed.
C27_OneTerminalCallOnEveryExit ==
  \A s \in Sessions :
    (Exited(s) /\ ~auto_acknowledge /\ broker_message[s] # NoDelivery) =>
      /\ sh[s].acks + sh[s].nacks = 1
      /\ sh[s].on = broker_message[s]

\* C30: the pending store holds no envelope that is marked consumed, and its
\* length is the number of envelopes ingested minus the number of envelopes
\* marked consumed.  (No state of the model is inside a locked section: each
\* is part of one step.)
C30_EagerPruning ==
  /\ \A d \in Range(messages) : ~consumed[d]
  /\ Len(messages) =
       Cardinality({d \in Deliveries : Parsed(d)}) -
       Cardinality({d \in Deliveries : consumed[d]})

C30_Witness ==
  /\ \E d \in Deliveries : consumed[d]
  /\ Len(messages) = 1
  /\ Cardinality({d \in Deliveries : Parsed(d)}) = 2

\* ------------------------------------------------------------ handed envelopes
\* C31: the wait hands out its envelope without taking it from the store:
\* while a session is between the return of its wait and its exit, the
\* envelope it holds is in the pending store and is not marked consumed.
C31_PendingUntilExit ==
  \A s \in Sessions :
    pc[s] \in {"block", "exit"} =>
      /\ broker_message[s] \in Range(messages)
      /\ ~consumed[broker_message[s]]

\* C32: the wait of a session for id X is handed the earliest pending
\* envelope with id X, whatever arrived before it, and no step of a session
\* touches an envelope other than its own: the others stay in the store, in
\* their order, as pending as they were and without a new ack or nack call.
C32_OtherEnvelopesUntouched ==
  [][\A s \in Sessions :
       /\ (pc[s] # "block" /\ pc'[s] = "block" /\ expected_id'[s] # NoId) =>
            /\ broker_message'[s] \in Range(messages)
            /\ ~consumed[broker_message'[s]]
            /\ IdOf(broker_message'[s]) = expected_id'[s]
            /\ broker_message'[s] = EarliestPending(expected_id'[s])
       /\ pc'[s] # pc[s] =>
            LET mine == IF pc'[s] = "block" THEN broker_message'[s]
                        ELSE broker_message[s] IN
              /\ \A d \in Range(messages) \ {mine} :
                   /\ d \in Range(messages')
                   /\ consumed'[d] = consumed[d]
                   /\ bm_message'[d] = bm_message[d]
                   /\ acks'[d] = acks[d]
                   /\ nacks'[d] = nacks[d]
              /\ SelectSeq(messages', LAMBDA d : d # mine) =
                   SelectSeq(messages, LAMBDA d : d # mine)]_vars

\* A session for id X was handed the second delivery and has exited; the
\* first delivery, of another id, is still pending and has no broker call.
C32_Witness ==
  \E s \in Sessions :
    /\ Exited(s) /\ sh[s].origin = "None"
    /\ broker_message[s] = 2
    /\ messages = <<1>>
    /\ IdOf(1) = "tx-2"
    /\ ~consumed[1]
    /\ acks[1] = 0 /\ nacks[1] = 0

\* ------------------------------------------------------------ MessageConsumer
\* The default timeouts a MessageConsumer is made with: not shorter than one
\* poll interval, as the default of 60 seconds is.
DefaultTimeouts == PollInterval..(PollInterval + MaxTimeout - 1)

\* The timeout arguments a caller passes: none, or a number of ticks.
TimeoutArgs == {NoTimeout} \cup {<<t>> : t \in 0..MaxTimeout}

\* The timeout a call is to wait with when the default stands in for an
\* omitted timeout only.
TimeoutIfGiven(timeout_kw, default) ==
  IF timeout_kw = NoTimeout THEN default ELSE timeout_kw[1]

\* get_message / wait_for_message: timeout = timeout or self.default_timeout
\* (None and 0 are both false).
TimeoutOrDefault(timeout_kw, default) ==
  IF timeout_kw = NoTimeout THEN default
  ELSE IF timeout_kw[1] = 0 THEN default
  ELSE timeout_kw[1]

\* MessageConsumer.__init__ over a new handler.
ConsumerInit ==
  /\ default_timeout \in DefaultTimeouts
  /\ via = [s \in Sessions |-> "None"]
  /\ in_time = [s \in Sessions |-> NoDelivery]

\* The state no call through the consumer touches.
outsideConsumer == <<backendVars, routingVars, facadeVars, redeliveryVars>>

\* MessageConsumer.get_message(expected_id, timeout): it enters
\* handler.process_message(timeout or default_timeout, expected_id); the
\* block of its session is `return msg`.
GetMessage(s, timeout_kw, expected) ==
  /\ StartSession(s, TimeoutOrDefault(timeout_kw, default_timeout), expected)
  /\ via' = [via EXCEPT ![s] = "get_message"]
  /\ UNCHANGED <<default_timeout, in_time, outsideConsumer>>

\* MessageConsumer.wait_for_message(expected_id, timeout): the same entry; the
\* block of its session is the block of the caller.
WaitForMessage(s, timeout_kw, expected) ==
  /\ StartSession(s, TimeoutOrDefault(timeout_kw, default_timeout), expected)
  /\ via' = [via EXCEPT ![s] = "wait_for_message"]
  /\ UNCHANGED <<default_timeout, in_time, outsideConsumer>>

\* handle_message while calls are waiting; the history notes the waits whose
\* deadline the new envelope is ahead of.
ConsumerIngest(p) ==
  /\ HandleMessage(p)
  /\ in_time' =
       [s \in Sessions |->
          IF /\ in_time[s] = NoDelivery
             /\ pc[s] = "sleep"
             /\ elapsed[s] < timeout_seconds[s]
             /\ ParseOk(message_class, p)
             /\ \/ expected_id[s] = NoId
                \/ ExtractMessageId(ParsedMessage(message_class, p)) = expected_id[s]
            THEN delivered + 1
            ELSE in_time[s]]
  /\ UNCHANGED <<default_timeout, via, outsideConsumer>>

\* The caller of the consumer has its result.
ConsumerClose(s) ==
  /\ Close(s)
  /\ via' = [via EXCEPT ![s] = "None"]
  /\ in_time' = [in_time EXCEPT ![s] = NoDelivery]
  /\ UNCHANGED <<default_timeout, outsideConsumer>>

ConsumerNext ==
  \/ \E p \in Payloads : ConsumerIngest(p)
  \/ \E s \in Sessions, t \in TimeoutArgs, e \in Ids \cup {NoId} :
       GetMessage(s, t, e)
  \/ \E s \in Sessions, t \in TimeoutArgs, e \in Ids \cup {NoId} :
       WaitForMessage(s, t, e)
  \/ \E s \in Sessions : Wake(s) /\ UNCHANGED <<consumerVars, outsideConsumer>>
  \/ \E s \in Sessions :
       BlockReturn(s) /\ UNCHANGED <<consumerVars, outsideConsumer>>
  \/ \E s \in Sessions, e \in ProcessingErrors :
       /\ via[s] = "wait_for_message"
       /\ BlockRaise(s, e)
       /\ UNCHANGED <<consumerVars, outsideConsumer>>
  \/ \E s \in Sessions :
       /\ via[s] = "wait_for_message"
       /\ BlockCancel(s)
       /\ UNCHANGED <<consumerVars, outsideConsumer>>
  \/ \E s \in Sessions :
       MarkConsumed(s) /\ UNCHANGED <<consumerVars, outsideConsumer>>
  \/ \E s \in Sessions : ConsumerClose(s)
  \/ Tick /\ UNCHANGED <<consumerVars, outsideConsumer>>

\* A handler of pull messages with manual acknowledgement and a
\* MessageConsumer over it; no provisioning call.
ConsumerStart ==
  /\ Init
  /\ ~auto_acknowledge
  /\ message_class = HttpPullMessage
  /\ BackendIdle
  /\ RoutingIdle
  /\ FacadeIdle
  /\ RedeliveryIdle
  /\ ConsumerInit

ConsumerSpec ==
  ConsumerStart /\ [][ConsumerNext]_<<vars, backendVars, otherVars>>

\* C33: a wait does not time out over a matching envelope that was ingested
\* before its deadline: when a wait raises its timeout, no envelope that
\* matched it and arrived less than timeout_seconds after its start is
\* pending in the store.
C33_NoTimeoutOverTimelyMessage ==
  \A s \in Sessions :
    (Exited(s) /\ sh[s].origin = "wait") =>
      ~(/\ in_time[s] # NoDelivery
        /\ in_time[s] \in Range(messages)
        /\ ~consumed[in_time[s]])

\* C35: the timeout a call through the consumer passes to the wait is the
\* caller's own whenever the caller gave one, 0 included, and the default of
\* the consumer only when the caller gave none: a call that is left waiting
\* waits with that timeout.
C35_CallerTimeoutIsPassed ==
  [][\A s \in Sessions, t \in TimeoutArgs, e \in Ids \cup {NoId} :
       ((GetMessage(s, t, e) \/ WaitForMessage(s, t, e)) /\ pc'[s] = "sleep") =>
         timeout_seconds'[s] = TimeoutIfGiven(t, default_timeout)]_vars

\* C36: with manual acknowledgement, a message that get_message has returned
\* to its caller was acked exactly once, was not nacked by the call, and its
\* envelope is marked consumed and out of the pending store.
C36_ReturnedAfterExit ==
  \A s \in Sessions :
    (/\ Exited(s) /\ via[s] = "get_message" /\ ~auto_acknowledge
     /\ raised[s] = NoError) =>
      /\ acks[broker_message[s]] = 1
      /\ sh[s].acks = 1
      /\ sh[s].nacks = 0
      /\ consumed[broker_message[s]]
      /\ broker_message[s] \notin Range(messages)

\* ------------------------------------------------------------ routing keys
\* Longest provider host and longest push sub-path that are drawn.
MaxHostLen == 3
MaxPathLen == 3

BASE_HTTP_PULL_QUEUE_ROUTING_KEY == <<"h", "t", "t", "p", ".", "p", "u", "l", "l">>
BASE_HTTP_PUSH_QUEUE_ROUTING_KEY == <<"h", "t", "t", "p", ".", "p", "u", "s", "h">>

\* QueueType
PULL == "pull"
PUSH == "push"

\* The characters of the strings that are drawn.
LowerCase == {"a", "b", "c", "f", "m", "o", "r", "t", "x"}
UpperCase == {"T"}
Digits == {"1"}
HostChars == {"a", ".", "-"}
PathChars == {"a", "/", "."}

\* All strings over `chars` of at most n characters.
Strings(chars, n) == UNION {[1..k -> chars] : k \in 0..n}

FooBarCom == <<"f", "o", "o", ".", "b", "a", "r", ".", "c", "o", "m">>
Tx1 == <<"t", "x", "-", "1">>

Hosts == Strings(HostChars, MaxHostLen) \cup {None, FooBarCom}
Paths == Strings(PathChars, MaxPathLen) \cup {None}
OperationIds == {Tx1, <<"t", "x", "_", "1">>, <<"t", "x", ".", "1">>, <<"T", "x", "1">>}

\* Python truth of an Optional[str]: None and "" are false.
Truthy(s) == s # None /\ s # <<>>

\* sep.join(parts)
RECURSIVE Join(_, _)
Join(parts, sep) ==
  IF parts = <<>> THEN <<>>
  ELSE IF Len(parts) = 1 THEN parts[1]
  ELSE parts[1] \o <<sep>> \o Join(Tail(parts), sep)

\* s.split(sep): the pieces between the separators, empty ones included.
RECURSIVE Split(_, _)
Split(s, sep) ==
  IF s = <<>> THEN << <<>> >>
  ELSE LET rest == Split(Tail(s), sep) IN
         IF Head(s) = sep THEN << <<>> >> \o rest
         ELSE << <<Head(s)>> \o rest[1] >> \o Tail(rest)

\* str.lower() of one character
Lower(c) == IF c = "T" THEN "t" ELSE c

\* slugify, first pass: lower case, and every character that is no letter,
\* digit or hyphen becomes a hyphen.
SlugChar(c) ==
  IF Lower(c) \in LowerCase \cup Digits THEN Lower(c) ELSE "-"

\* slugify, second pass: runs of hyphens become one hyphen.
RECURSIVE Collapse(_)
Collapse(s) ==
  IF Len(s) < 2 THEN s
  ELSE IF s[1] = "-" /\ s[2] = "-" THEN Collapse(Tail(s))
  ELSE <<s[1]>> \o Collapse(Tail(s))

\* slugify, last pass: strip("-")
RECURSIVE Strip(_)
Strip(s) ==
  IF s = <<>> THEN s
  ELSE IF Head(s) = "-" THEN Strip(Tail(s))
  ELSE IF s[Len(s)] = "-" THEN Strip(SubSeq(s, 1, Len(s) - 1))
  ELSE s

\* slugify(text) of python-slugify with its defaults
Slugify(s) == Strip(Collapse([i \in 1..Len(s) |-> SlugChar(s[i])]))

\* [part for part in routing_path.split("/") if part]
PathParts(path) == SelectSeq(Split(path, "/"), LAMBDA part : part # <<>>)

\* Variant: a pull key that slugifies the operation id too.
BuildPullSlugId(host, id) ==
  IF ~Truthy(host)
    THEN Join(<<BASE_HTTP_PULL_QUEUE_ROUTING_KEY, <<"#">> >>, ".")
    ELSE Join(<<BASE_HTTP_PULL_QUEUE_ROUTING_KEY, Slugify(host),
                IF Truthy(id) THEN Slugify(id) ELSE <<"*">> >>, ".")

\* ConsumerQueueFactory._build_pull_routing_key
BuildPullRoutingKey(host, id) ==
  IF ~Truthy(host)
    THEN Join(<<BASE_HTTP_PULL_QUEUE_ROUTING_KEY, <<"#">> >>, ".")
    ELSE Join(<<BASE_HTTP_PULL_QUEUE_ROUTING_KEY, Slugify(host),
                IF Truthy(id) THEN id ELSE <<"*">> >>, ".")

\* ConsumerQueueFactory._build_push_routing_key
BuildPushRoutingKey(path) ==
  IF ~Truthy(path)
    THEN Join(<<BASE_HTTP_PUSH_QUEUE_ROUTING_KEY, <<"#">> >>, ".")
    ELSE Join(<<BASE_HTTP_PUSH_QUEUE_ROUTING_KEY>> \o PathParts(path), ".")

\* ConsumerQueueFactory._build_routing_key
BuildRoutingKey(type, host, path, id) ==
  IF type = PULL THEN BuildPullRoutingKey(host, id)
  ELSE BuildPushRoutingKey(path)

\* http_pull_endpoint: the routing key of the publish
PullPublishKey(host, id) ==
  Join(<<BASE_HTTP_PULL_QUEUE_ROUTING_KEY, Slugify(host), Slugify(id)>>, ".")

\* http_push_endpoint (no sub-path in the URL) and
\* http_push_endpoint_with_routing_key
PushPublishKey(path) ==
  IF path = None THEN BASE_HTTP_PUSH_QUEUE_ROUTING_KEY
  ELSE LET parts == PathParts(path) IN
         IF Len(parts) > 0
           THEN BASE_HTTP_PUSH_QUEUE_ROUTING_KEY \o <<".">> \o Join(parts, ".")
           ELSE BASE_HTTP_PUSH_QUEUE_ROUTING_KEY

\* Topic exchange: the words of a pattern against the words of a key; "*" is
\* one word, "#" any number of words.
RECURSIVE WordsMatch(_, _)
WordsMatch(pattern, key) ==
  IF pattern = <<>> THEN key = <<>>
  ELSE IF Head(pattern) = <<"#">>
    THEN \/ WordsMatch(Tail(pattern), key)
         \/ key # <<>> /\ WordsMatch(pattern, Tail(key))
  ELSE /\ key # <<>>
       /\ Head(pattern) = <<"*">> \/ Head(pattern) = Head(key)
       /\ WordsMatch(Tail(pattern), Tail(key))

\* ExchangeType.TOPIC: a queue bound with `pattern` gets a message published
\* with `key`.
TopicMatch(pattern, key) == WordsMatch(Split(pattern, "."), Split(key, "."))

\* A call of create_queue_config of each kind, with its arguments.
RoutingInit ==
  /\ queue_type \in {PULL, PUSH}
  /\ cfg_provider_host \in (IF queue_type = PULL THEN Hosts ELSE {None})
  /\ cfg_transfer_process_id \in (IF queue_type = PULL THEN OperationIds \cup {None}
                              ELSE {None})
  /\ cfg_routing_path \in (IF queue_type = PUSH THEN Paths ELSE {None})
  /\ routing_key = None
  /\ other_scope = None
  /\ other_key = None
  /\ publish_id = None
  /\ published_key = None

\* create_queue_config: the routing key of the configuration
CreateQueueConfig ==
  /\ routing_key = None
  /\ routing_key' =
       BuildRoutingKey(queue_type, cfg_provider_host, cfg_routing_path, cfg_transfer_process_id)
  /\ UNCHANGED <<queue_type, cfg_provider_host, cfg_transfer_process_id, cfg_routing_path,
                 other_scope, other_key, publish_id, published_key>>

\* create_queue_config once more, for the same kind and id and the scope
\* `scope`.
CreateOtherConfig(scope) ==
  /\ other_key = None
  /\ Truthy(scope)
  /\ other_scope' = scope
  /\ other_key' =
       BuildRoutingKey(queue_type, scope, scope, cfg_transfer_process_id)
  /\ UNCHANGED <<queue_type, cfg_provider_host, cfg_transfer_process_id, cfg_routing_path,
                 routing_key, publish_id, published_key>>

\* POST /pull for a message of the provider host with the id `id`.
HttpPullEndpoint(id) ==
  /\ queue_type = PULL
  /\ published_key = None
  /\ Truthy(cfg_provider_host)
  /\ Truthy(cfg_transfer_process_id) => id = cfg_transfer_process_id
  /\ publish_id' = id
  /\ published_key' = PullPublishKey(cfg_provider_host, id)
  /\ UNCHANGED <<queue_type, cfg_provider_host, cfg_transfer_process_id, cfg_routing_path,
                 routing_key, other_scope, other_key>>

\* POST /push or POST /push/<routing_path>.
HttpPushEndpoint ==
  /\ queue_type = PUSH
  /\ published_key = None
  /\ published_key' = PushPublishKey(cfg_routing_path)
  /\ UNCHANGED <<queue_type, cfg_provider_host, cfg_transfer_process_id, cfg_routing_path,
                 routing_key, other_scope, other_key, publish_id>>

RoutingNext ==
  \/ CreateQueueConfig /\ UNCHANGED <<vars, backendVars, facadeVars, redeliveryVars, consumerVars>>
  \/ \E scope \in (IF queue_type = PULL THEN Hosts ELSE Paths) :
       CreateOtherConfig(scope) /\ UNCHANGED <<vars, backendVars, facadeVars, redeliveryVars, consumerVars>>
  \/ \E id \in OperationIds :
       HttpPullEndpoint(id) /\ UNCHANGED <<vars, backendVars, facadeVars, redeliveryVars, consumerVars>>
  \/ HttpPushEndpoint /\ UNCHANGED <<vars, backendVars, facadeVars, redeliveryVars, consumerVars>>

\* The factory and the publish endpoints alone.
RoutingStart ==
  /\ Init
  /\ BackendIdle
  /\ RoutingInit
  /\ FacadeIdle
  /\ RedeliveryIdle
  /\ ConsumerIdle
  /\ ~auto_acknowledge
  /\ message_class = (IF queue_type = PUSH THEN HttpPushMessage ELSE HttpPullMessage)

RoutingSpec == RoutingStart /\ [][RoutingNext]_<<vars, backendVars, otherVars>>

\* ------------------------------------------------------------ facades
\* Clients made, facades open at a time, and uuid4 calls in one run.
MaxClients == 2
MaxFacades == 2
MaxUuids == 3

\* uuid.uuid4().hex[:8] of the n-th call: a value no other call returns.
UuidHex(n) == <<"u", <<"1", "2", "3", "4", "5">>[n]>>

\* The consumer ids callers give to MessagingClient.
ConsumerIds == {<<"c">>, <<"d">>}

\* QueueType.value
QueueTypeValue(type) ==
  IF type = PULL THEN <<"p", "u", "l", "l">> ELSE <<"p", "u", "s", "h">>

\* create_queue_config: queue_name = f"{queue_type.value}-{consumer_id}"
QueueName(type, consumer_id) == QueueTypeValue(type) \o <<"-">> \o consumer_id

\* MessagingClient.__init__: consumer_id or f"consumer-{uuid.uuid4().hex[:8]}"
ClientConsumerId(consumer_id, n) ==
  IF Truthy(consumer_id) THEN consumer_id
  ELSE <<"c", "o", "n", "s", "u", "m", "e", "r", "-">> \o UuidHex(n)

\* _stream_pull_messages: f"sse-pull-{transfer_process_id}-{uuid...}"
SsePullConsumerId(id, n) ==
  <<"s", "s", "e", "-", "p", "u", "l", "l", "-">> \o id \o <<"-">> \o UuidHex(n)

\* _stream_push_messages: f"sse-push-{routing_path.replace('/', '-')}-{uuid...}"
SsePushConsumerId(path, n) ==
  <<"s", "s", "e", "-", "p", "u", "s", "h", "-">> \o
  [i \in 1..Len(path) |-> IF path[i] = "/" THEN "-" ELSE path[i]] \o
  <<"-">> \o UuidHex(n)

\* The configuration create_queue_config returns for a facade.
QueueConfig(type, consumer_id) ==
  [queue_name |-> QueueName(type, consumer_id),
   consumer_id |-> consumer_id,
   queue_type |-> type]

\* MessagingClient(consumer_id)
NewClient(consumer_id) ==
  /\ Len(clients) < MaxClients
  /\ ~Truthy(consumer_id) => uuids < MaxUuids
  /\ clients' = Append(clients, ClientConsumerId(consumer_id, uuids + 1))
  /\ uuids' = IF Truthy(consumer_id) THEN uuids ELSE uuids + 1
  /\ UNCHANGED facades

\* client.pull_consumer() / client.push_consumer() is entered: the facade of
\* client c for queue type `type` is open.
OpenConsumer(c, type) ==
  /\ c \in 1..Len(clients)
  /\ Len(facades) < MaxFacades
  /\ facades' = Append(facades, QueueConfig(type, clients[c]))
  /\ UNCHANGED <<clients, uuids>>

\* A stream is opened: _stream_pull_messages / _stream_push_messages make a
\* client of their own and enter its consumer.
OpenStream(type) ==
  /\ Len(facades) < MaxFacades
  /\ uuids < MaxUuids
  /\ uuids' = uuids + 1
  /\ facades' =
       Append(facades,
              QueueConfig(type,
                          IF type = PULL THEN SsePullConsumerId(Tx1, uuids + 1)
                          ELSE SsePushConsumerId(<<"a", "/", "a">>, uuids + 1)))
  /\ UNCHANGED clients

\* The context of facade i is left.
CloseConsumer(i) ==
  /\ i \in 1..Len(facades)
  /\ facades' = [k \in 1..(Len(facades) - 1) |->
                   IF k < i THEN facades[k] ELSE facades[k + 1]]
  /\ UNCHANGED <<clients, uuids>>

FacadeNext ==
  \/ \E id \in ConsumerIds \cup {None} :
       NewClient(id) /\ UNCHANGED <<vars, backendVars, routingVars, redeliveryVars, consumerVars>>
  \/ \E c \in 1..MaxClients, type \in {PULL, PUSH} :
       OpenConsumer(c, type) /\ UNCHANGED <<vars, backendVars, routingVars, redeliveryVars, consumerVars>>
  \/ \E type \in {PULL, PUSH} :
       OpenStream(type) /\ UNCHANGED <<vars, backendVars, routingVars, redeliveryVars, consumerVars>>
  \/ \E i \in 1..MaxFacades :
       CloseConsumer(i) /\ UNCHANGED <<vars, backendVars, routingVars, redeliveryVars, consumerVars>>

\* The clients and their facades alone.
FacadeStart ==
  /\ Init
  /\ BackendIdle
  /\ RoutingIdle
  /\ FacadeIdle
  /\ RedeliveryIdle
  /\ ConsumerIdle
  /\ ~auto_acknowledge
  /\ message_class = HttpPullMessage

FacadeSpec == FacadeStart /\ [][FacadeNext]_<<vars, backendVars, otherVars>>

\* C26: the queue name of a facade is its kind, "-", and its consumer id, and
\* no two facades that are open at a time have the same queue name, whichever
\* clients or streams opened them.
C26_QueueNamesDiffer ==
  /\ \A i \in 1..Len(facades) :
       facades[i].queue_name =
         QueueTypeValue(facades[i].queue_type) \o <<"-">> \o facades[i].consumer_id
  /\ \A i, j \in 1..Len(facades) :
       i # j => facades[i].queue_name # facades[j].queue_name

\* ------------------------------------------------------------ routing claims
HttpPullAll ==
  <<"h", "t", "t", "p", ".", "p", "u", "l", "l", ".", "#">>
HttpPushAll ==
  <<"h", "t", "t", "p", ".", "p", "u", "s", "h", ".", "#">>
HttpPullFooBarComTx1 ==
  <<"h", "t", "t", "p", ".", "p", "u", "l", "l", ".",
    "f", "o", "o", "-", "b", "a", "r", "-", "c", "o", "m", ".",
    "t", "x", "-", "1">>
HttpPullFooBarComAny ==
  <<"h", "t", "t", "p", ".", "p", "u", "l", "l", ".",
    "f", "o", "o", "-", "b", "a", "r", "-", "c", "o", "m", ".", "*">>

\* C21: the binding pattern built for PULL is "http.pull.#" when no provider
\* host is given; with a host it is "http.pull.", the slug of the host, ".",
\* and the operation id as it was given, or "*" without an id; the slug holds
\* no dot, and for host "foo.bar.com" the pattern is
\* "http.pull.foo-bar-com.tx-1" with id "tx-1" and "http.pull.foo-bar-com.*"
\* without an id.
C21_PullRoutingKey ==
  (queue_type = PULL /\ routing_key # None) =>
    /\ ~Truthy(cfg_provider_host) => routing_key = HttpPullAll
    /\ Truthy(cfg_provider_host) =>
         /\ routing_key =
              BASE_HTTP_PULL_QUEUE_ROUTING_KEY \o <<".">> \o
              Slugify(cfg_provider_host) \o <<".">> \o
              (IF Truthy(cfg_transfer_process_id) THEN cfg_transfer_process_id
               ELSE <<"*">>)
         /\ \A i \in 1..Len(Slugify(cfg_provider_host)) :
              Slugify(cfg_provider_host)[i] # "."
    /\ cfg_provider_host = FooBarCom =>
         routing_key = (IF cfg_transfer_process_id = None THEN HttpPullFooBarComAny
                        ELSE IF cfg_transfer_process_id = Tx1 THEN HttpPullFooBarComTx1
                        ELSE routing_key)

C21_Witness ==
  /\ queue_type = PULL
  /\ cfg_provider_host = FooBarCom
  /\ cfg_transfer_process_id = Tx1
  /\ routing_key = HttpPullFooBarComTx1

\* C22: the key POST /pull publishes with for a message of host h and id i
\* is matched by the pattern the factory builds for h, with the wildcard id
\* and with the id i, and by the unscoped pattern "http.pull.#".
C22_PublishedKeyMatchesBinding ==
  (queue_type = PULL /\ routing_key # None /\ published_key # None) =>
    /\ TopicMatch(routing_key, published_key)
    /\ TopicMatch(HttpPullAll, published_key)

\* The words of a key.
Words(key) == Split(key, ".")

\* C23: every token put into a key or a pattern is without a dot, so a pull
\* key with a host has the two base words, the host and the id (or "*"), and
\* a push key the two base words and one word for each path segment.
C23_TokensAreSlugified ==
  /\ (queue_type = PULL /\ routing_key # None /\ Truthy(cfg_provider_host)) =>
       Len(Words(routing_key)) = 4
  /\ (queue_type = PULL /\ published_key # None) =>
       Len(Words(published_key)) = 4
  /\ (queue_type = PUSH /\ routing_key # None /\ Truthy(cfg_routing_path)) =>
       Len(Words(routing_key)) = 2 + Len(PathParts(cfg_routing_path))
  /\ (queue_type = PUSH /\ published_key # None /\ Truthy(cfg_routing_path)) =>
       Len(Words(published_key)) = 2 + Len(PathParts(cfg_routing_path))

\* A host name: labels of letters, digits and inner hyphens, joined by dots.
ValidLabel(l) ==
  /\ l # <<>>
  /\ l[1] # "-" /\ l[Len(l)] # "-"
  /\ \A i \in 1..Len(l) : l[i] \in LowerCase \cup Digits \cup {"-"}
ValidHost(h) ==
  /\ Truthy(h)
  /\ \A k \in 1..Len(Split(h, ".")) : ValidLabel(Split(h, ".")[k])

\* A push sub-path with at least one segment.
ValidPath(p) == Truthy(p) /\ PathParts(p) # <<>>

\* C24: two distinct scopes never give equal keys: distinct provider hosts
\* give distinct pull patterns, and sub-paths of distinct segments give
\* distinct push patterns.
C24_NoCollision ==
  (routing_key # None /\ other_key # None) =>
    /\ (/\ queue_type = PULL
        /\ ValidHost(cfg_provider_host) /\ ValidHost(other_scope)
        /\ cfg_provider_host # other_scope) => routing_key # other_key
    /\ (/\ queue_type = PUSH
        /\ ValidPath(cfg_routing_path) /\ ValidPath(other_scope)
        /\ PathParts(cfg_routing_path) # PathParts(other_scope)) =>
         routing_key # other_key

\* The segments of the sub-path of a request or a configuration.
Segments(path) == IF path = None THEN <<>> ELSE PathParts(path)

\* C25: for every push sub-path the publish endpoint and the factory derive
\* "http.push" followed by the non-empty segments in order; without a segment
\* the publisher uses "http.push" and the pattern is "http.push.#".
C25_PushTokens ==
  (queue_type = PUSH /\ routing_key # None /\ published_key # None) =>
    IF Segments(cfg_routing_path) = <<>>
      THEN /\ published_key = BASE_HTTP_PUSH_QUEUE_ROUTING_KEY
           /\ routing_key = HttpPushAll
      ELSE /\ published_key =
                Join(<<BASE_HTTP_PUSH_QUEUE_ROUTING_KEY>> \o
                     Segments(cfg_routing_path), ".")
           /\ \A k \in 1..Len(Segments(cfg_routing_path)) :
                Segments(cfg_routing_path)[k] # <<>>
           /\ routing_key = published_key

====
